---- MODULE Spec2Model ----
(***************************************************************************)
(* The sound-based wallet transport of GibberWalletWeb: the EIP envelope   *)
(* (eip-config), the EIPAudioProtocol transport (send, chunked send,       *)
(* receive, reassembly, waitForEIPMessage), the offline EIPMessageHandler  *)
(* and the online WalletClient session.                                    *)
(*                                                                         *)
(* A text is a sequence of runs [m, lo, hi]: the characters lo..hi of the  *)
(* JSON serialisation of the value m.  JSON.stringify gives the single run *)
(* 1..JsonLen(m); substring cuts runs by character offset; join glues      *)
(* adjacent runs of the same value; JSON.parse accepts exactly a complete  *)
(* serialisation and throws on every other text.                           *)
(***************************************************************************)
EXTENDS Integers, Sequences, FiniteSets, TLC

VARIABLES
    isListening,          \* [Peers -> BOOLEAN]   EIPAudioProtocol.isListening
    isTransmitting,       \* [Peers -> BOOLEAN]   EIPAudioProtocol.isTransmitting
    chunkStorage,         \* [Peers -> [key -> Seq(chunk envelope)]]
    sends,                \* [Peers -> set of sendEIPMessage activations]
    expectations,         \* [ExpIds -> waitForEIPMessage promise]
    session,              \* WalletClient.sendTransactionRequest activation
    walletAddress,        \* WalletClient.walletAddress
    pendingTransactions,  \* EIPMessageHandler.pendingTransactions: [id -> tx_request]
    handlers,             \* EIPMessageHandler async activations
    nextId,               \* [Peers -> [main, error -> Nat]]  ids drawn from translator.new()
    emitted,              \* [Peers -> bag]  'eip-message' emissions (history)
    handed,               \* [Peers -> set]  envelopes passed to sendEIPMessage (history)
    reassemblyLog,        \* [Peers -> set]  reassembly attempts (history)
    approveCalls,         \* ids for which approveTransaction found a pending tx (history)
    wire,                 \* the envelope whose chunks are in the air, and its chunks
    arrivals,             \* Seq of chunk numbers, in the order they were decoded
    lost,                 \* chunks the channel dropped
    elapsed,              \* the reassembly timeout has passed since the last chunk
    used,                 \* environment inputs consumed, and the foreign envelopes heard
    codec,                \* an envelope, its JSON text and what was read back from it
    legacy,               \* a send of the legacy AudioProtocol and its playbacks
    eipSend,              \* one EIPAudioProtocol, a send of it and the playbacks of that send
    waits,                \* the calls of the online client that wait, and the deliveries so far
    responder,            \* the approveTransaction and rejectTransaction calls and how they began
    networks              \* the custom networks in storage and the result of the last call

vars == << isListening, isTransmitting, chunkStorage, sends, expectations, session,
           walletAddress, pendingTransactions, handlers, nextId, emitted, handed,
           reassemblyLog, approveCalls, wire, arrivals, lost, elapsed, used, codec,
           legacy, eipSend, waits, responder, networks >>

Peers == {"online", "offline"}

Undefined == "undefined"

EIP_PROTOCOL_VERSION == "1.0"

SupportedTypes ==
    {"connect", "connect_response", "tx_request", "tx_response", "ack", "error", "chunk"}

(***************************************************************************)
(* Values of the model: ids, the wallet address, transactions.             *)
(***************************************************************************)
\* translator.new(): the k-th id peer p draws for an envelope of its own
\* ("main") or for an error reply ("error"); ids never repeat.
NewId(p, kind, k) == p \o "-" \o kind \o "-" \o ToString(k)

ForeignId == "thirdParty"

WalletAddress == "0x742d35cc6bf8c3f2e4e4fd7a3f1b4c6e7d8e9f0a"

TxData ==
    [chainId |-> 1, nonce |-> "0x0", gasPrice |-> "0x3b9aca00", gasLimit |-> "0x5208",
     to |-> "0x1111111111111111111111111111111111111111",
     value |-> "0xde0b6b3a7640000", data |-> "0x"]

\* The signature is opaque here: a short raw transaction keeps tx_response at
\* three chunks.
SignedRaw ==
    "0xf86c808504a817c800825208941111111111111111111111"

SignedHash == "0xcccccccccccccccccccccccccccccccccccccccccccccccccccccccccccccccc"

EmptyPayload == [empty |-> TRUE]

(***************************************************************************)
(* JSON.stringify: lengths.                                                *)
(***************************************************************************)
KeyLen(k) == Len(k) + 3                       \* "key":
QLen(s) == Len(s) + 2                         \* "string"
OptLen(k, s) == IF s = Undefined THEN 0 ELSE KeyLen(k) + QLen(s)

\* translator.new() of short-uuid gives 22 characters, whatever name the id
\* has here.
IdLen == 22
OptIdLen(k, s) == IF s = Undefined THEN 0 ELSE KeyLen(k) + IdLen + 2

DecLen(n) ==
    IF n < 10 THEN 1 ELSE IF n < 100 THEN 2 ELSE IF n < 1000 THEN 3
    ELSE IF n < 10000 THEN 4 ELSE IF n < 100000 THEN 5 ELSE IF n < 1000000 THEN 6
    ELSE IF n < 10000000 THEN 7 ELSE 8

RECURSIVE TextLen(_)
TextLen(t) == IF t = <<>> THEN 0 ELSE (t[1].hi - t[1].lo + 1) + TextLen(Tail(t))

TxLen(tx) ==
    2 + 6 + KeyLen("chainId") + DecLen(tx.chainId) + KeyLen("nonce") + QLen(tx.nonce)
      + KeyLen("gasPrice") + QLen(tx.gasPrice) + KeyLen("gasLimit") + QLen(tx.gasLimit)
      + KeyLen("to") + QLen(tx.to) + KeyLen("value") + QLen(tx.value)
      + KeyLen("data") + QLen(tx.data)

\* The serialised length of a payload.  A member whose value is undefined is
\* left out by JSON.stringify.  The length of a chunk payload counts chunkData
\* without the backslashes JSON adds before its quotes: a lower bound.
PayloadLen(p) ==
    IF "address" \in DOMAIN p THEN
        2 + KeyLen("address") + QLen(p.address)
          + (IF p.received_id = Undefined THEN 0 ELSE 1 + OptIdLen("received_id", p.received_id))
    ELSE IF "message" \in DOMAIN p THEN
        2 + KeyLen("message") + QLen(p.message)
          + (IF p.received_id = Undefined THEN 0 ELSE 1 + OptIdLen("received_id", p.received_id))
    ELSE IF "transaction" \in DOMAIN p THEN
        2 + KeyLen("transaction") + TxLen(p.transaction)
    ELSE IF "signedTransaction" \in DOMAIN p THEN
        2 + KeyLen("signedTransaction")
          + 2 + KeyLen("raw") + QLen(p.signedTransaction.raw) + 1
          + KeyLen("hash") + QLen(p.signedTransaction.hash)
    ELSE IF "chunkData" \in DOMAIN p THEN
        2 + (IF p.originalMessageId = Undefined THEN 0
             ELSE OptIdLen("originalMessageId", p.originalMessageId) + 1)
          + KeyLen("originalType") + QLen(p.originalType) + 1
          + KeyLen("chunkIndex") + DecLen(p.chunkIndex) + 1
          + KeyLen("totalChunks") + DecLen(p.totalChunks) + 1
          + KeyLen("chunkData") + 2 + TextLen(p.chunkData)
    ELSE IF "received_id" \in DOMAIN p THEN
        2 + OptIdLen("received_id", p.received_id)
    ELSE 2

\* JSON.stringify(message).length for {version, type, payload, id?}.
JsonLen(m) ==
    2 + (IF m.version = Undefined THEN 0 ELSE OptLen("version", m.version) + 1)
      + KeyLen("type") + QLen(m.type) + 1
      + KeyLen("payload") + PayloadLen(m.payload)
      + (IF m.id = Undefined THEN 0 ELSE 1 + OptIdLen("id", m.id))

(***************************************************************************)
(* Texts.                                                                  *)
(***************************************************************************)
JSONstringify(m) == << [m |-> m, lo |-> 1, hi |-> JsonLen(m)] >>

SyntaxError == [version |-> Undefined, type |-> "SyntaxError", payload |-> EmptyPayload,
                id |-> Undefined]

\* JSON.parse(text): the value, or SyntaxError for a text that is not one
\* complete serialisation.
JSONparse(t) ==
    IF Len(t) = 1 /\ t[1].lo = 1 /\ t[1].hi = JsonLen(t[1].m) THEN t[1].m ELSE SyntaxError

Min(a, b) == IF a < b THEN a ELSE b

\* text.substring(a, b) of a serialisation: the characters at offsets a..b-1.
substring(t, a, b) ==
    IF t = <<>> \/ a >= TextLen(t) \/ b <= a THEN <<>>
    ELSE << [m |-> t[1].m, lo |-> t[1].lo + a, hi |-> Min(t[1].lo + b - 1, t[1].hi)] >>

\* s followed by t, character by character.
Concat(s, t) ==
    IF s = <<>> THEN t
    ELSE IF t = <<>> THEN s
    ELSE IF s[Len(s)].m = t[1].m /\ s[Len(s)].hi + 1 = t[1].lo
         THEN SubSeq(s, 1, Len(s) - 1)
                \o << [m |-> t[1].m, lo |-> s[Len(s)].lo, hi |-> t[1].hi] >>
                \o Tail(t)
         ELSE s \o t

\* texts.join('')
RECURSIVE join(_)
join(ts) == IF ts = <<>> THEN <<>> ELSE Concat(ts[1], join(Tail(ts)))

(***************************************************************************)
(* eip-config                                                              *)
(***************************************************************************)
Null == "null"

\* createEIPMessage(type, payload, id): fresh is the id translator.new() gives.
createEIPMessage(type, payload, id, fresh) ==
    [version |-> EIP_PROTOCOL_VERSION, type |-> type, payload |-> payload,
     id |-> IF id # Null /\ (id # Undefined \/ type # "connect")
            THEN (IF id # Undefined THEN id ELSE fresh)
            ELSE Undefined]

\* A variant of validateEIPMessage that takes any type.
validateEIPMessageAnyType(m) ==
    /\ m.version # Undefined
    /\ "absent" \notin DOMAIN m.payload
    /\ m.id # Null

validateEIPMessage(m) ==
    /\ m.version # Undefined
    /\ m.type \in SupportedTypes
    /\ "absent" \notin DOMAIN m.payload
    /\ m.id # Null

isVersionSupported(version) == version = EIP_PROTOCOL_VERSION

(***************************************************************************)
(* EIPAudioProtocol: chunking and reassembly.                              *)
(***************************************************************************)
ChunkThreshold == 120

ChunkSize == 80

CeilDiv(a, b) == (a + b - 1) \div b

\* The slices of messageText of at most chunkSize characters, in order.
\* for (let i = 0; i < messageText.length; i += chunkSize)
\*   chunks.push(messageText.substring(i, i + chunkSize))
RECURSIVE ChunkLoop(_, _, _, _)
ChunkLoop(messageText, chunkSize, i, chunks) ==
    IF i < TextLen(messageText)
    THEN ChunkLoop(messageText, chunkSize, i + chunkSize,
                   Append(chunks, substring(messageText, i, i + chunkSize)))
    ELSE chunks

ChunkTexts(messageText, chunkSize) == ChunkLoop(messageText, chunkSize, 0, <<>>)

\* The chunk envelope of slice k (1-based; chunkIndex is 0-based) of message.
\* The id translator.new() gives the k-th chunk envelope of message: one
\* value per message and chunk.
ChunkId(message, k) == message.type \o ":" \o message.id \o "#" \o ToString(k)

\* A variant of chunkMessage that counts the chunks from one.
chunkMessageFromOne(message, texts, k, fresh) ==
    [version |-> message.version,
     type    |-> "chunk",
     payload |-> [originalMessageId |-> message.id,
                  originalType      |-> message.type,
                  chunkIndex        |-> k,
                  totalChunks       |-> Len(texts),
                  chunkData         |-> texts[k]],
     id      |-> fresh]

chunkMessage(message, texts, k, fresh) ==
    [version |-> message.version,
     type    |-> "chunk",
     payload |-> [originalMessageId |-> message.id,
                  originalType      |-> message.type,
                  chunkIndex        |-> k - 1,
                  totalChunks       |-> Len(texts),
                  chunkData         |-> texts[k]],
     id      |-> fresh]

\* chunks.sort((a, b) => a.payload.chunkIndex - b.payload.chunkIndex): stable.
RECURSIVE InsertByIndex(_, _)
InsertByIndex(sorted, c) ==
    IF sorted = <<>> THEN << c >>
    ELSE IF sorted[Len(sorted)].payload.chunkIndex <= c.payload.chunkIndex
         THEN Append(sorted, c)
         ELSE Append(InsertByIndex(SubSeq(sorted, 1, Len(sorted) - 1), c), sorted[Len(sorted)])

RECURSIVE SortByIndexFrom(_, _)
SortByIndexFrom(sorted, rest) ==
    IF rest = <<>> THEN sorted
    ELSE SortByIndexFrom(InsertByIndex(sorted, rest[1]), Tail(rest))

\* A variant that leaves the chunks in arrival order.
SortByIndexUnsorted(chunks) == chunks

SortByIndex(chunks) == SortByIndexFrom(<<>>, chunks)

ChunkDataOf(chunks) == [k \in 1..Len(chunks) |-> chunks[k].payload.chunkData]

MapRemove(f, key) == [k \in DOMAIN f \ {key} |-> f[k]]

MapSet(f, key, v) == [k \in DOMAIN f \cup {key} |-> IF k = key THEN v ELSE f[k]]

\* A variant of handleChunk that keeps the buffer of a reassembly whose text
\* did not parse.
handleChunkKeepsFailed(storage, chunk) ==
    LET key    == chunk.payload.originalMessageId
        chunks == Append(IF key \in DOMAIN storage THEN storage[key] ELSE <<>>, chunk)
    IN  IF Len(chunks) = chunk.payload.totalChunks
        THEN LET sorted          == SortByIndex(chunks)
                 reassembledData == join(ChunkDataOf(sorted))
                 originalMessage == JSONparse(reassembledData)
             IN  [storage |-> IF originalMessage = SyntaxError
                              THEN MapSet(storage, key, chunks)
                              ELSE MapRemove(storage, key),
                  emit    |-> IF originalMessage = SyntaxError THEN <<>>
                              ELSE << originalMessage >>,
                  attempt |-> {[id |-> key,
                                indices |-> [k \in 1..Len(sorted) |-> sorted[k].payload.chunkIndex],
                                ok |-> originalMessage # SyntaxError]}]
        ELSE [storage |-> MapSet(storage, key, chunks), emit |-> <<>>, attempt |-> {}]

\* handleChunk(chunk) on the chunk storage `storage`: the new storage, the
\* envelope emitted as 'eip-message' (at most one) and the reassembly attempted.
handleChunk(storage, chunk) ==
    LET key    == chunk.payload.originalMessageId
        chunks == Append(IF key \in DOMAIN storage THEN storage[key] ELSE <<>>, chunk)
    IN  IF Len(chunks) = chunk.payload.totalChunks
        THEN LET sorted          == SortByIndex(chunks)
                 reassembledData == join(ChunkDataOf(sorted))
                 originalMessage == JSONparse(reassembledData)
             IN  [storage |-> MapRemove(storage, key),
                  emit    |-> IF originalMessage = SyntaxError THEN <<>>
                              ELSE << originalMessage >>,
                  attempt |-> {[id |-> key,
                                indices |-> [k \in 1..Len(sorted) |-> sorted[k].payload.chunkIndex],
                                ok |-> originalMessage # SyntaxError]}]
        ELSE [storage |-> MapSet(storage, key, chunks), emit |-> <<>>, attempt |-> {}]

(***************************************************************************)
(* EIPAudioProtocol: sendEIPMessage.                                       *)
(*                                                                         *)
(* An activation of sendEIPMessage is a record of sends[p]:                *)
(*   owner  who awaits it; msg  the envelope passed in;                    *)
(*   texts  the slices of a chunked send (<<>> for a single send);         *)
(*   i      the slice being sent (0 for a single send);                    *)
(*   cur    the envelope whose text is being played;                       *)
(*   pc     "playing" (source started, onended or the fallback not yet     *)
(*          run), "gap" (the delay between chunks), "guard" (the delay     *)
(*          before listening is resumed);                                  *)
(*   wasListening  as sendChunkedEIPMessage saved it;                      *)
(*   heard  the peers whose microphone decoded the current playback.       *)
(***************************************************************************)
NoMsg == [version |-> Undefined, type |-> "none", payload |-> EmptyPayload, id |-> Undefined]

EmptyMap == [k \in {} |-> NoMsg]

\* A variant of the length test that also chunks a text of exactly the
\* threshold length.
NeedsChunkingFromThreshold(messageText) == TextLen(messageText) >= ChunkThreshold

\* The length test of sendEIPMessage.
NeedsChunking(messageText) == TextLen(messageText) > ChunkThreshold

\* sendEIPMessage(msg) up to its first suspension, on the activations S:
\* a text longer than the threshold goes to sendChunkedEIPMessage (listening
\* is stopped, the first chunk is played), any other is played as it is.
\* drawn tells which id the caller drew to build msg ("none", "main", "error").
BeginSend(p, msg, owner, S, drawn) ==
    LET messageText == JSONstringify(msg)
        chunked     == NeedsChunking(messageText)
        texts       == IF chunked THEN ChunkTexts(messageText, ChunkSize) ELSE <<>>
        task        == [owner |-> owner, msg |-> msg, texts |-> texts,
                        i     |-> IF chunked THEN 1 ELSE 0,
                        cur   |-> IF chunked
                                  THEN chunkMessage(msg, texts, 1, ChunkId(msg, 1))
                                  ELSE msg,
                        pc    |-> "playing",
                        wasListening |-> chunked /\ isListening[p],
                        heard |-> {}]
    IN  /\ sends' = [S EXCEPT ![p] = @ \cup {task}]
        /\ isTransmitting' = [isTransmitting EXCEPT ![p] = TRUE]
        /\ isListening' = IF chunked THEN [isListening EXCEPT ![p] = FALSE] ELSE isListening
        /\ nextId' = IF drawn = "none" THEN nextId ELSE [nextId EXCEPT ![p][drawn] = @ + 1]
        /\ handed' = [handed EXCEPT ![p] = @ \cup {msg}]

\* No send begins: the activations become S.
NoSend(S) ==
    /\ sends' = S
    /\ UNCHANGED << isTransmitting, isListening, nextId, handed >>

(***************************************************************************)
(* EIPAudioProtocol: waitForEIPMessage.  An expectation has its listener   *)
(* (registered on 'eip-message' or not), its timer (armed or not), the     *)
(* number of times resolve was called and the first value resolved.        *)
(***************************************************************************)
waitForEIPMessage(expectedType) ==
    [type |-> expectedType, listener |-> TRUE, timer |-> TRUE, resolutions |-> 0,
     outcome |-> "pending", message |-> NoMsg]

\* A variant of messageHandler that leaves the timer armed.
messageHandlerKeepsTimer(e, message) ==
    IF message.type = e.type
    THEN [e EXCEPT !.listener = FALSE,
                   !.resolutions = @ + 1,
                   !.outcome = IF e.resolutions = 0 THEN "message" ELSE @,
                   !.message = IF e.resolutions = 0 THEN message ELSE @]
    ELSE e

\* A variant of messageHandler that takes a message of any type.
messageHandlerAnyType(e, message) ==
    [e EXCEPT !.timer = FALSE,
              !.listener = FALSE,
              !.resolutions = @ + 1,
              !.outcome = IF e.resolutions = 0 THEN "message" ELSE @,
              !.message = IF e.resolutions = 0 THEN message ELSE @]

\* messageHandler of expectation e, called with an emitted message.
messageHandler(e, message) ==
    IF message.type = e.type
    THEN [e EXCEPT !.timer = FALSE,
                   !.listener = FALSE,
                   !.resolutions = @ + 1,
                   !.outcome = IF e.resolutions = 0 THEN "message" ELSE @,
                   !.message = IF e.resolutions = 0 THEN message ELSE @]
    ELSE e

\* A variant of the timeout callback that resolves nothing.
timeoutCallbackSilent(e) == [e EXCEPT !.timer = FALSE, !.listener = FALSE]

\* The setTimeout callback of expectation e.
timeoutCallback(e) ==
    [e EXCEPT !.timer = FALSE,
              !.listener = FALSE,
              !.resolutions = @ + 1,
              !.outcome = IF e.resolutions = 0 THEN "timeout" ELSE @]

\* The expectations after 'eip-message' was emitted with message.
AfterEmit(message) ==
    [k \in 1..Len(expectations) |->
        IF expectations[k].listener THEN messageHandler(expectations[k], message)
        ELSE expectations[k]]

(***************************************************************************)
(* WalletClient (online): sendTransactionRequest.                          *)
(*   pc    "idle", "sendingConnect", "awaitConnectResponse", "sendingTx",  *)
(*         "awaitTxResponse", "broadcasting", "done", "failed";            *)
(*   tx    the tx_request built by sendEthTransfer;                        *)
(*   exp   the expectation awaited (0: none);                              *)
(*   steps what the activation did so far, in order (history).             *)
(***************************************************************************)
IdleSession ==
    [pc |-> "idle", tx |-> NoMsg, exp |-> 0, steps |-> <<>>, raw |-> Undefined,
     error |-> Undefined]

HasAddress(message) ==
    "address" \in DOMAIN message.payload /\ message.payload.address # Undefined

\* A variant of the test that takes any signedTransaction object.
HasRawAnySigned(message) ==
    "signedTransaction" \in DOMAIN message.payload

HasRaw(message) ==
    /\ "signedTransaction" \in DOMAIN message.payload
    /\ message.payload.signedTransaction.raw # Undefined

\* The activation resumes with the message its expectation resolved with.
SessionOnMessage(message, S) ==
    IF session.pc = "awaitConnectResponse"
    THEN /\ walletAddress' = IF HasAddress(message) THEN message.payload.address
                             ELSE walletAddress
         /\ BeginSend("online", session.tx, "session", S, "none")
         /\ session' = [session EXCEPT !.pc = "sendingTx", !.exp = 0,
                                       !.steps = @ \o << "connect_response", "tx_request" >>]
    ELSE /\ session' =
                IF HasRaw(message)
                THEN [session EXCEPT !.pc = "broadcasting", !.exp = 0,
                                     !.steps = Append(@, "tx_response"),
                                     !.raw = message.payload.signedTransaction.raw]
                ELSE [session EXCEPT !.pc = "failed", !.exp = 0,
                                     !.steps = Append(@, "tx_response"),
                                     !.error = "Invalid transaction response"]
         /\ NoSend(S)
         /\ UNCHANGED walletAddress

\* A variant that goes on to the transaction request when the wait for the
\* connect response timed out.
SessionOnTimeoutIgnored ==
    IF session.pc = "awaitConnectResponse"
    THEN /\ BeginSend("online", session.tx, "session", sends, "none")
         /\ session' = [session EXCEPT !.pc = "sendingTx", !.exp = 0,
                                       !.steps = Append(@, "tx_request")]
    ELSE /\ session' = [session EXCEPT !.pc = "failed", !.exp = 0,
                                       !.error = "No transaction response received"]
         /\ NoSend(sends)

\* The activation resumes with null: its expectation timed out.
SessionOnTimeout ==
    /\ session' = [session EXCEPT
                      !.pc = "failed", !.exp = 0,
                      !.error = IF session.pc = "awaitConnectResponse"
                                THEN "No connect response received from offline wallet"
                                ELSE "No transaction response received"]
    /\ NoSend(sends)

\* WalletClient.handleEIPMessage and the waitForEIPMessage listeners, called
\* in the order they were registered, then the activation that awaited.
EmitOnline(message, S) ==
    LET after == AfterEmit(message)
        woken == /\ session.exp # 0
                 /\ expectations[session.exp].resolutions = 0
                 /\ after[session.exp].resolutions = 1
    IN  /\ expectations' = after
        /\ UNCHANGED << pendingTransactions, handlers >>
        /\ IF woken
           THEN SessionOnMessage(message, S)
           ELSE /\ walletAddress' = IF message.type = "connect_response" /\ HasAddress(message)
                                    THEN message.payload.address ELSE walletAddress
                /\ NoSend(S)
                /\ UNCHANGED session

(***************************************************************************)
(* EIPMessageHandler (offline).                                            *)
(***************************************************************************)
SupportedChainIds == {1, 5, 11155111}

\* A variant of validateTransactionRequest that accepts every chain.
validateTransactionRequestAnyChain(txRequest) ==
    /\ "transaction" \in DOMAIN txRequest
    /\ \A f \in {"nonce", "gasPrice", "gasLimit", "to", "value", "data"} :
          txRequest.transaction[f] # Undefined

validateTransactionRequest(txRequest) ==
    /\ "transaction" \in DOMAIN txRequest
    /\ \A f \in {"nonce", "gasPrice", "gasLimit", "to", "value", "data"} :
          txRequest.transaction[f] # Undefined
    /\ txRequest.transaction.chainId \in SupportedChainIds

\* sendErrorResponse(originalMessageId, errorMessage)
sendErrorResponse(originalMessageId, errorMessage, owner, S) ==
    BeginSend("offline",
              createEIPMessage("error",
                               [message |-> errorMessage, received_id |-> originalMessageId],
                               Undefined, NewId("offline", "error", nextId["offline"].error + 1)),
              owner, S, "error")

\* A variant of handleTransactionRequest that signs at once.
handleTransactionRequestAutoSign(message, S) ==
    IF validateTransactionRequest(message.payload)
    THEN /\ pendingTransactions' = MapSet(pendingTransactions, message.id, message)
         /\ BeginSend("offline",
                      createEIPMessage("tx_response",
                          [signedTransaction |-> [raw |-> SignedRaw, hash |-> SignedHash]],
                          message.id, NewId("offline", "main", nextId["offline"].main + 1)),
                      "errorReply", S, IF message.id = Undefined THEN "main" ELSE "none")
    ELSE /\ sendErrorResponse(message.id, "Invalid transaction request", "errorReply", S)
         /\ UNCHANGED pendingTransactions

\* handleTransactionRequest(message); a request that fails validation throws
\* into the catch of handleEIPMessage, which sends an error response.
handleTransactionRequest(message, S) ==
    IF validateTransactionRequest(message.payload)
    THEN /\ pendingTransactions' = MapSet(pendingTransactions, message.id, message)
         /\ NoSend(S)
    ELSE /\ sendErrorResponse(message.id, "Invalid transaction request", "errorReply", S)
         /\ UNCHANGED pendingTransactions

\* EIPMessageHandler.handleEIPMessage(message) up to its first suspension.
EmitOffline(message, S) ==
    /\ UNCHANGED << expectations, session, walletAddress >>
    /\ IF message.type = "connect"
       THEN /\ handlers' = Append(handlers, [kind |-> "connect", msg |-> message])
            /\ NoSend(S)
            /\ UNCHANGED pendingTransactions
       ELSE IF message.type = "tx_request"
       THEN /\ handleTransactionRequest(message, S)
            /\ UNCHANGED handlers
       ELSE IF message.type \in {"ack", "error"}
       THEN /\ NoSend(S)
            /\ UNCHANGED << handlers, pendingTransactions >>
       ELSE /\ sendErrorResponse(message.id, "Unknown message type: " \o message.type,
                                 "errorReply", S)
            /\ UNCHANGED << handlers, pendingTransactions >>

(***************************************************************************)
(* EIPAudioProtocol: the receive path.                                     *)
(***************************************************************************)
\* The bag with one more e.
BagAdd(bag, e) == IF e \in DOMAIN bag THEN [bag EXCEPT ![e] = @ + 1] ELSE MapSet(bag, e, 1)

Nothing(p) == [reply |-> <<>>, storage |-> chunkStorage[p], emit |-> <<>>, attempt |-> {}]

VersionMismatchError(message, fresh) ==
    createEIPMessage("error",
                     [message |-> "Unsupported protocol version: " \o message.version,
                      received_id |-> message.id],
                     Undefined, fresh)

\* A variant of handleEIPMessage without the version check.
handleEIPMessageAnyVersion(p, message) ==
    IF message.type = "chunk"
    THEN [reply |-> <<>>] @@ handleChunk(chunkStorage[p], message)
    ELSE [Nothing(p) EXCEPT !.emit = << message >>]

\* EIPAudioProtocol.handleEIPMessage(message): the error to send back, the
\* chunk storage and the envelope to emit as 'eip-message'.
handleEIPMessage(p, message) ==
    IF ~isVersionSupported(message.version)
    THEN [Nothing(p) EXCEPT !.reply = << VersionMismatchError(message, NewId(p, "error", nextId[p].error + 1)) >>]
    ELSE IF message.type = "chunk"
    THEN [reply |-> <<>>] @@ handleChunk(chunkStorage[p], message)
    ELSE [Nothing(p) EXCEPT !.emit = << message >>]

\* onaudioprocess with decoded text, on the activations S: the text is
\* parsed and validated, a valid envelope goes to handleEIPMessage.
Receive(p, text, S) ==
    LET messageData == JSONparse(text)
        r == IF messageData # SyntaxError /\ validateEIPMessage(messageData)
             THEN handleEIPMessage(p, messageData)
             ELSE Nothing(p)
    IN  /\ chunkStorage' = [chunkStorage EXCEPT ![p] = r.storage]
        /\ reassemblyLog' = [reassemblyLog EXCEPT ![p] = @ \cup r.attempt]
        /\ emitted' = IF r.emit = <<>> THEN emitted
                       ELSE [emitted EXCEPT ![p] =
                               BagAdd(@, [m |-> r.emit[1], transmitting |-> isTransmitting[p]])]
        /\ IF r.reply # <<>>
           THEN /\ BeginSend(p, r.reply[1], "versionError", S, "error")
                /\ UNCHANGED << expectations, session, walletAddress, pendingTransactions,
                                handlers >>
           ELSE IF r.emit # <<>>
           THEN IF p = "online" THEN EmitOnline(r.emit[1], S) ELSE EmitOffline(r.emit[1], S)
           ELSE /\ NoSend(S)
                /\ UNCHANGED << expectations, session, walletAddress, pendingTransactions,
                                handlers >>

(***************************************************************************)
(* Bounds of the exploration.                                              *)
(***************************************************************************)
MaxChunks     == 4   \* chunk sequences of at most this many chunks
MaxDuplicates == 1   \* repeated deliveries of a chunk
MaxLost       == 1   \* chunks that never arrive
MaxSessions   == 1   \* activations of sendTransactionRequest
MaxDisturbances == 1 \* envelopes of a third device heard, transmissions a
                     \* listening peer fails to decode and stopListening calls
                     \* of the page, together
MaxDecisions  == 1   \* approveTransaction and rejectTransaction calls of the page
MaxStarts     == 1   \* startListening calls of the page, per peer

(***************************************************************************)
(* The initial state: both peers constructed, nothing started.             *)
(***************************************************************************)
NoWire == [tx |-> "none", rx |-> "none", E |-> NoMsg, size |-> 0, chunks |-> <<>>]

NoCodec == [stage |-> "none", via |-> "none", E |-> NoMsg, text |-> <<>>, out |-> NoMsg]

\* EIPAudioProtocol after construction (no codec, not listening, not
\* transmitting), no send asked for, nothing emitted.
NoEipSend ==
    [ggwave |-> FALSE, isListening |-> FALSE, isTransmitting |-> FALSE, events |-> <<>>,
     pc |-> "idle", total |-> 0, i |-> 0, wasListening |-> FALSE, thrown |-> "none",
     started |-> <<>>, playing |-> {}, timers |-> {}, calls |-> <<>>, result |-> "none",
     before |-> [isListening |-> FALSE, isTransmitting |-> FALSE, events |-> 0]]

\* No call of the WalletClient is in progress, nothing was delivered.
NoWaits ==
    [calls |-> [c \in {"connectToOfflineWallet", "sendTransactionRequest"} |->
                   [pc |-> "idle", exp |-> 0]],
     delivered |-> 0]

\* EIPMessageHandler after construction: no decision was asked for.
NoResponder == [calls |-> <<>>]

\* No custom network is stored, no call was made.
NoNetworks == [custom |-> <<>>, result |-> "none", created |-> 0, calls |-> 0]

\* AudioProtocol after construction: no send was asked for.
NoLegacy ==
    [pc |-> "idle", total |-> 0, i |-> 0, playing |-> {}, started |-> <<>>, delays |-> <<>>,
     overlapped |-> FALSE, isTransmitting |-> FALSE]

InitPeers ==
    /\ isListening = [p \in Peers |-> FALSE]
    /\ isTransmitting = [p \in Peers |-> FALSE]
    /\ chunkStorage = [p \in Peers |-> EmptyMap]
    /\ sends = [p \in Peers |-> {}]
    /\ expectations = <<>>
    /\ session = IdleSession
    /\ walletAddress = Undefined
    /\ pendingTransactions = EmptyMap
    /\ handlers = <<>>
    /\ nextId = [p \in Peers |-> [main |-> 0, error |-> 0]]
    /\ emitted = [p \in Peers |-> [e \in {} |-> 0]]
    /\ handed = [p \in Peers |-> {}]
    /\ reassemblyLog = [p \in Peers |-> {}]
    /\ approveCalls = {}
    /\ arrivals = <<>>
    /\ lost = {}
    /\ elapsed = FALSE
    /\ legacy = NoLegacy
    /\ eipSend = NoEipSend
    /\ waits = NoWaits
    /\ responder = NoResponder
    /\ networks = NoNetworks
    /\ used = [duplicates |-> 0, disturbances |-> 0, sessions |-> 0, decisions |-> 0,
               starts |-> [p \in Peers |-> 0], foreign |-> [f \in {} |-> 0]]

(***************************************************************************)
(* Chunk delivery: the chunks of one envelope E, cut with chunk size S as  *)
(* sendChunkedEIPMessage cuts them, reach the receiver in any order, some  *)
(* twice, some never.                                                      *)
(***************************************************************************)
TxRequest == createEIPMessage("tx_request", [transaction |-> TxData], Undefined,
                              NewId("online", "main", 1))

LongEnvelopes ==
    { [tx |-> "online", E |-> TxRequest],
      [tx |-> "offline",
       E  |-> createEIPMessage("connect_response",
                               [address |-> WalletAddress, received_id |-> Undefined],
                               Undefined, NewId("offline", "main", 1))],
      [tx |-> "offline",
       E  |-> createEIPMessage("tx_response",
                               [signedTransaction |-> [raw |-> SignedRaw, hash |-> SignedHash]],
                               TxRequest.id, NewId("offline", "main", 1))] }

ChunkSizes == { S \in 1..400 : S % 20 = 0 }

Other(p) == IF p = "online" THEN "offline" ELSE "online"

ChunksOf(tx, E, S) ==
    LET texts == ChunkTexts(JSONstringify(E), S)
    IN  [k \in 1..Len(texts) |-> chunkMessage(E, texts, k, ChunkId(E, k))]

InitChunk ==
    /\ InitPeers
    /\ codec = NoCodec
    /\ \E c \in LongEnvelopes, S \in ChunkSizes :
          /\ JsonLen(c.E) > ChunkThreshold
          /\ CeilDiv(JsonLen(c.E), S) <= MaxChunks
          /\ wire = [tx |-> c.tx, rx |-> Other(c.tx), E |-> c.E, size |-> S,
                     chunks |-> ChunksOf(c.tx, c.E, S)]

Arrived == { arrivals[j] : j \in 1..Len(arrivals) }

\* The microphone of the receiver decodes chunk k.
ChunkArrives(k) ==
    /\ k \in 1..Len(wire.chunks)
    /\ k \notin lost
    /\ k \in Arrived => used.duplicates < MaxDuplicates
    /\ Receive(wire.rx, JSONstringify(wire.chunks[k]), sends)
    /\ arrivals' = Append(arrivals, k)
    /\ used' = IF k \in Arrived THEN [used EXCEPT !.duplicates = @ + 1] ELSE used
    /\ elapsed' = FALSE
    /\ UNCHANGED << approveCalls, wire, lost, codec, legacy, eipSend, waits, responder, networks >>

\* Chunk k never arrives.
Lose(k) ==
    /\ k \in 1..Len(wire.chunks)
    /\ k \notin Arrived
    /\ k \notin lost
    /\ Cardinality(lost) < MaxLost
    /\ lost' = lost \cup {k}
    /\ UNCHANGED << isListening, isTransmitting, chunkStorage, sends, expectations, session,
                    walletAddress, pendingTransactions, handlers, nextId, emitted, handed,
                    reassemblyLog, approveCalls, wire, arrivals, elapsed, used, codec, legacy,
                    eipSend, waits, responder, networks >>

\* The time of a reassembly timeout passes without a chunk being decoded:
\* handleChunk arms no timer, nothing runs.
Elapse ==
    /\ arrivals # <<>>
    /\ ~elapsed
    /\ elapsed' = TRUE
    /\ UNCHANGED << isListening, isTransmitting, chunkStorage, sends, expectations, session,
                    walletAddress, pendingTransactions, handlers, nextId, emitted, handed,
                    reassemblyLog, approveCalls, wire, arrivals, lost, used, codec, legacy,
                    eipSend, waits, responder, networks >>

NextChunk ==
    \/ \E k \in 1..MaxChunks + 1 : ChunkArrives(k)
    \/ \E k \in 1..MaxChunks + 1 : Lose(k)
    \/ Elapse

SpecChunk == InitChunk /\ [][NextChunk]_vars

AllArrived == Arrived = 1..Len(wire.chunks)

DeliveredOnce(p, E) ==
    /\ Cardinality(DOMAIN emitted[p]) = 1
    /\ \A e \in DOMAIN emitted[p] : e.m = E /\ emitted[p][e] = 1

\* C3: when every chunk of chunk(E, S) has been delivered once, in whatever
\* order, exactly one envelope has been delivered from reassembly, it is E,
\* and the buffer is gone.
C3_AnyPermutationReassembles ==
    (AllArrived /\ used.duplicates = 0) =>
        /\ DeliveredOnce(wire.rx, wire.E)
        /\ DOMAIN chunkStorage[wire.rx] = {}

\* C3 witness: four chunks arrived as 2,0,3,1 (chunk numbers 3,1,4,2) and
\* the envelope was delivered.
C3_Witness ==
    /\ arrivals = << 3, 1, 4, 2 >>
    /\ Len(wire.chunks) = 4
    /\ DeliveredOnce(wire.rx, wire.E)

\* C4: once all distinct chunks have arrived, the envelope has been
\* delivered exactly once, whether or not a chunk was delivered twice.
C4_DuplicateIdempotent ==
    AllArrived => DeliveredOnce(wire.rx, wire.E)

\* C4: the state its failure shows: a chunk came twice before the set was
\* complete, every chunk has arrived, nothing was delivered.
C4_DuplicateLosesEnvelope ==
    /\ AllArrived
    /\ used.duplicates = 1
    /\ DOMAIN emitted[wire.rx] = {}

Indices(a) == { a.indices[j] : j \in 1..Len(a.indices) }

\* C5: every reassembly attempted for an id had all the indices
\* 0..totalChunks-1 in its buffer, each once, and nothing is delivered
\* while an index is missing.
C5_NoReassemblyWithMissingIndex ==
    /\ \A a \in reassemblyLog[wire.rx] :
          /\ Indices(a) = 0..(Len(wire.chunks) - 1)
          /\ Len(a.indices) = Len(wire.chunks)
    /\ ~AllArrived => DOMAIN emitted[wire.rx] = {}

\* C5: the state its failure shows: reassembly was attempted on a buffer
\* that lacked an index.
C5_AttemptWithMissingIndex ==
    \E a \in reassemblyLog[wire.rx] : Indices(a) # 0..(Len(wire.chunks) - 1)

\* C6: when the reassembly timeout has passed since the last chunk of a
\* sequence that did not complete, its buffer is no longer in the chunk
\* storage.
C6_IncompleteBufferPurged ==
    elapsed => DOMAIN chunkStorage[wire.rx] = {}

\* C6: the state its failure shows: chunks 0 and 2 of 3 arrived, chunk 1
\* is lost, the timeout has passed and the buffer still holds both.
C6_BufferOutlivesTimeout ==
    /\ elapsed
    /\ Len(wire.chunks) = 3
    /\ arrivals = << 1, 3 >>
    /\ lost = {2}
    /\ wire.E.id \in DOMAIN chunkStorage[wire.rx]
    /\ Len(chunkStorage[wire.rx][wire.E.id]) = 2

(***************************************************************************)
(* The two devices: the online WalletClient starts sessions, the offline   *)
(* EIPMessageHandler answers, the user approves or rejects, a third device *)
(* may be heard.                                                           *)
(***************************************************************************)
chunkVars == << wire, arrivals, lost, elapsed, codec, legacy, eipSend, waits, responder, networks >>

Init == InitPeers /\ wire = NoWire /\ codec = NoCodec

\* startListening(), called by the page.
StartListening(p) ==
    /\ ~isListening[p]
    /\ used.starts[p] < MaxStarts
    /\ used' = [used EXCEPT !.starts[p] = @ + 1]
    /\ isListening' = [isListening EXCEPT ![p] = TRUE]
    /\ UNCHANGED << isTransmitting, chunkStorage, sends, expectations, session, walletAddress,
                    pendingTransactions, handlers, nextId, emitted, handed, reassemblyLog,
                    approveCalls >>
    /\ UNCHANGED chunkVars

\* stopListening(), called by the page.
StopListening(p) ==
    /\ isListening[p]
    /\ used.disturbances < MaxDisturbances
    /\ used' = [used EXCEPT !.disturbances = @ + 1]
    /\ isListening' = [isListening EXCEPT ![p] = FALSE]
    /\ UNCHANGED << isTransmitting, chunkStorage, sends, expectations, session, walletAddress,
                    pendingTransactions, handlers, nextId, emitted, handed, reassemblyLog,
                    approveCalls >>
    /\ UNCHANGED chunkVars

\* sendEthTransfer builds the tx_request; sendTransactionRequest sends
\* connect.
StartSession ==
    /\ session.pc \in {"idle", "done", "failed"}
    /\ used.sessions < MaxSessions
    /\ used' = [used EXCEPT !.sessions = @ + 1]
    /\ session' = [IdleSession EXCEPT
                      !.pc = "sendingConnect",
                      !.tx = createEIPMessage("tx_request", [transaction |-> TxData], Undefined,
                                              NewId("online", "main", nextId["online"].main + 1)),
                      !.steps = << "connect" >>]
    /\ BeginSend("online", createEIPMessage("connect", EmptyPayload, Undefined, Undefined),
                 "session", sends, "main")
    /\ UNCHANGED << chunkStorage, expectations, walletAddress, pendingTransactions, handlers,
                    emitted, reassemblyLog, approveCalls >>
    /\ UNCHANGED chunkVars

\* The microphone of q decodes what task of p is playing (q may be p).
Decode(q, p, task) ==
    /\ isListening[q]
    /\ task \in sends[p]
    /\ task.pc = "playing"
    /\ q \notin task.heard
    /\ Receive(q, JSONstringify(task.cur),
               [sends EXCEPT ![p] = (@ \ {task}) \cup {[task EXCEPT !.heard = @ \cup {q}]}])
    /\ UNCHANGED << approveCalls, used >>
    /\ UNCHANGED chunkVars

Tasks == UNION { sends[p] : p \in Peers }

\* Envelopes of a third device and the peer that hears them: requests reach
\* the offline wallet, a response reaches the online client.
Foreign ==
    { [rx |-> "offline",
       m  |-> [version |-> "2.0", type |-> "connect", payload |-> EmptyPayload,
               id |-> Undefined]],
      [rx |-> "online",
       m  |-> [version |-> "2.0", type |-> "connect_response",
               payload |-> [address |-> WalletAddress, received_id |-> Undefined],
               id |-> ForeignId]],
      [rx |-> "offline",
       m  |-> [version |-> "1.0", type |-> "tx_request", payload |-> [transaction |-> TxData],
               id |-> ForeignId]] }

\* The microphone of q decodes an envelope of a third device, played while
\* neither peer plays.
Inject(q, m) ==
    /\ isListening[q]
    /\ \A task \in Tasks : task.pc # "playing"
    /\ used.disturbances < MaxDisturbances
    /\ used' = [used EXCEPT !.disturbances = @ + 1,
                            !.foreign = BagAdd(@, [rx |-> q, m |-> m])]
    /\ Receive(q, JSONstringify(m), sends)
    /\ UNCHANGED approveCalls
    /\ UNCHANGED chunkVars

\* What runs when the send of task has returned true to its caller.
Completed(task) ==
    IF task.owner = "session"
    THEN /\ expectations' =
               Append(expectations,
                      waitForEIPMessage(IF session.pc = "sendingConnect"
                                        THEN "connect_response" ELSE "tx_response"))
         /\ session' = [session EXCEPT
                           !.pc = IF session.pc = "sendingConnect"
                                  THEN "awaitConnectResponse" ELSE "awaitTxResponse",
                           !.exp = Len(expectations) + 1]
         /\ UNCHANGED pendingTransactions
    ELSE IF task.owner = "approve"
    THEN /\ pendingTransactions' = MapRemove(pendingTransactions, task.msg.id)
         /\ UNCHANGED << expectations, session >>
    ELSE IF task.owner = "reject"
    THEN /\ pendingTransactions' = MapRemove(pendingTransactions, task.msg.payload.received_id)
         /\ UNCHANGED << expectations, session >>
    ELSE UNCHANGED << expectations, session, pendingTransactions >>

\* source.onended (or the 10 s fallback timer) of what task is playing.  The
\* listening peer has decoded it by then, or the channel lost it.
OnEnded(p, task) ==
    /\ task \in sends[p]
    /\ task.pc = "playing"
    /\ IF isListening[Other(p)] /\ Other(p) \notin task.heard
       THEN /\ used.disturbances < MaxDisturbances
            /\ used' = [used EXCEPT !.disturbances = @ + 1]
       ELSE UNCHANGED used
    /\ isTransmitting' = [isTransmitting EXCEPT ![p] = FALSE]
    /\ IF task.i # 0 /\ task.i < Len(task.texts)
       THEN /\ sends' = [sends EXCEPT ![p] = (@ \ {task}) \cup {[task EXCEPT !.pc = "gap"]}]
            /\ UNCHANGED << expectations, session, pendingTransactions >>
       ELSE IF task.i # 0 /\ task.wasListening
       THEN /\ sends' = [sends EXCEPT ![p] = (@ \ {task}) \cup {[task EXCEPT !.pc = "guard"]}]
            /\ UNCHANGED << expectations, session, pendingTransactions >>
       ELSE /\ sends' = [sends EXCEPT ![p] = @ \ {task}]
            /\ Completed(task)
    /\ UNCHANGED << isListening, chunkStorage, walletAddress, handlers, nextId, emitted, handed,
                    reassemblyLog, approveCalls >>
    /\ UNCHANGED chunkVars

\* A variant of the loop step that plays the same chunk again.
NextChunkIndexRepeated(i) == i

\* sendChunkedEIPMessage: the step of its loop over the chunks (i++).
NextChunkIndex(i) == i + 1

\* The 1000 ms between two chunks are over: the next chunk is played.
GapDone(p, task) ==
    /\ task \in sends[p]
    /\ task.pc = "gap"
    /\ sends' = [sends EXCEPT ![p] =
                    (@ \ {task}) \cup
                    {[task EXCEPT !.pc = "playing", !.i = NextChunkIndex(@), !.heard = {},
                                  !.cur = chunkMessage(task.msg, task.texts, NextChunkIndex(task.i),
                                                       ChunkId(task.msg, NextChunkIndex(task.i)))]}]
    /\ isTransmitting' = [isTransmitting EXCEPT ![p] = TRUE]
    /\ UNCHANGED << isListening, chunkStorage, expectations, session, walletAddress,
                    pendingTransactions, handlers, nextId, emitted, handed, reassemblyLog,
                    approveCalls, used >>
    /\ UNCHANGED chunkVars

\* The 2000 ms after the last chunk are over: listening is resumed and the
\* chunked send returns.
GuardDone(p, task) ==
    /\ task \in sends[p]
    /\ task.pc = "guard"
    /\ isListening' = [isListening EXCEPT ![p] = TRUE]
    /\ sends' = [sends EXCEPT ![p] = @ \ {task}]
    /\ Completed(task)
    /\ UNCHANGED << isTransmitting, chunkStorage, walletAddress, handlers, nextId, emitted,
                    handed, reassemblyLog, approveCalls, used >>
    /\ UNCHANGED chunkVars

RemoveAt(seq, h) == SubSeq(seq, 1, h - 1) \o SubSeq(seq, h + 1, Len(seq))

\* A variant of the connect response that refers to itself.
ConnectResponseSelfReferring(message, fresh) ==
    createEIPMessage("connect_response",
                     [address |-> WalletAddress, received_id |-> fresh],
                     Undefined, fresh)

\* handleConnectRequest: the response to the connect message.
ConnectResponse(message, fresh) ==
    createEIPMessage("connect_response",
                     [address |-> WalletAddress, received_id |-> message.id],
                     Undefined, fresh)

\* handleConnectRequest after its 200 ms: the connect response is sent.
ConnectDelayDone(h) ==
    /\ h \in 1..Len(handlers)
    /\ handlers[h].kind = "connect"
    /\ handlers' = RemoveAt(handlers, h)
    /\ BeginSend("offline",
                 ConnectResponse(handlers[h].msg,
                                 NewId("offline", "main", nextId["offline"].main + 1)),
                 "connectReply", sends, "main")
    /\ UNCHANGED << chunkStorage, expectations, session, walletAddress, pendingTransactions,
                    emitted, reassemblyLog, approveCalls, used >>
    /\ UNCHANGED chunkVars

\* approveTransaction(messageId), called by the page, up to the signing.
ApproveCall(messageId) ==
    /\ messageId \in DOMAIN pendingTransactions
    /\ used.decisions < MaxDecisions
    /\ used' = [used EXCEPT !.decisions = @ + 1]
    /\ approveCalls' = approveCalls \cup {messageId}
    /\ handlers' = Append(handlers, [kind |-> "sign", msg |-> pendingTransactions[messageId]])
    /\ UNCHANGED << isListening, isTransmitting, chunkStorage, sends, expectations, session,
                    walletAddress, pendingTransactions, nextId, emitted, handed, reassemblyLog >>
    /\ UNCHANGED chunkVars

\* approveTransaction after testWallet.signTransaction: tx_response is sent.
SignDone(h) ==
    /\ h \in 1..Len(handlers)
    /\ handlers[h].kind = "sign"
    /\ handlers' = RemoveAt(handlers, h)
    /\ BeginSend("offline",
                 createEIPMessage("tx_response",
                                  [signedTransaction |-> [raw |-> SignedRaw, hash |-> SignedHash]],
                                  handlers[h].msg.id,
                                  NewId("offline", "main", nextId["offline"].main + 1)),
                 "approve", sends, IF handlers[h].msg.id = Undefined THEN "main" ELSE "none")
    /\ UNCHANGED << chunkStorage, expectations, session, walletAddress, pendingTransactions,
                    emitted, reassemblyLog, approveCalls, used >>
    /\ UNCHANGED chunkVars

\* rejectTransaction(messageId), called by the page.
RejectCall(messageId) ==
    /\ messageId \in DOMAIN pendingTransactions
    /\ used.decisions < MaxDecisions
    /\ used' = [used EXCEPT !.decisions = @ + 1]
    /\ sendErrorResponse(messageId, "Transaction rejected: User rejected", "reject", sends)
    /\ UNCHANGED << chunkStorage, expectations, session, walletAddress, pendingTransactions,
                    handlers, emitted, reassemblyLog, approveCalls >>
    /\ UNCHANGED chunkVars

\* The setTimeout of expectation e fires.
Timeout(e) ==
    /\ e \in 1..Len(expectations)
    /\ expectations[e].timer
    /\ expectations' = [expectations EXCEPT ![e] = timeoutCallback(@)]
    /\ IF /\ session.exp = e
          /\ expectations[e].resolutions = 0
          /\ timeoutCallback(expectations[e]).resolutions = 1
       THEN SessionOnTimeout
       ELSE NoSend(sends) /\ UNCHANGED session
    /\ UNCHANGED << chunkStorage, walletAddress, pendingTransactions, handlers, emitted,
                    reassemblyLog, approveCalls, used >>
    /\ UNCHANGED chunkVars

\* crypto.broadcastTransaction returned: the session ends with success.
BroadcastDone ==
    /\ session.pc = "broadcasting"
    /\ session' = [session EXCEPT !.pc = "done", !.steps = Append(@, "broadcast")]
    /\ UNCHANGED << isListening, isTransmitting, chunkStorage, sends, expectations,
                    walletAddress, pendingTransactions, handlers, nextId, emitted, handed,
                    reassemblyLog, approveCalls, used >>
    /\ UNCHANGED chunkVars

Next ==
    \/ \E p \in Peers : StartListening(p)
    \/ \E p \in Peers : StopListening(p)
    \/ StartSession
    \/ \E q \in Peers, p \in Peers, task \in Tasks : Decode(q, p, task)
    \/ \E f \in Foreign : Inject(f.rx, f.m)
    \/ \E p \in Peers, task \in Tasks : OnEnded(p, task)
    \/ \E p \in Peers, task \in Tasks : GapDone(p, task)
    \/ \E p \in Peers, task \in Tasks : GuardDone(p, task)
    \/ \E h \in 1..Len(handlers) : ConnectDelayDone(h)
    \/ \E id \in DOMAIN pendingTransactions : ApproveCall(id)
    \/ \E h \in 1..Len(handlers) : SignDone(h)
    \/ \E id \in DOMAIN pendingTransactions : RejectCall(id)
    \/ \E e \in 1..Len(expectations) : Timeout(e)
    \/ BroadcastDone

Spec == Init /\ [][Next]_vars

\* The timers of the runtime fire: an armed setTimeout is eventually run.
FairSpec == Spec /\ WF_vars(\E e \in 1..(2 * MaxSessions) : Timeout(e))

\* C7: every expectation created by waitForEIPMessage is eventually
\* resolved, by a matching envelope or by its timeout.
C7_EveryExpectationResolves ==
    <>[](\A e \in 1..Len(expectations) : expectations[e].resolutions > 0)

(***************************************************************************)
(* Properties of the two devices.                                          *)
(***************************************************************************)

\* C1: every tx_response the offline wallet passed to sendEIPMessage, and
\* every signing in progress, is for an id approveTransaction was called
\* with while that id was pending.
C1_NoResponseWithoutApproval ==
    /\ \A m \in handed["offline"] : m.type = "tx_response" => m.id \in approveCalls
    /\ \A h \in 1..Len(handlers) : handlers[h].kind = "sign" => handlers[h].msg.id \in approveCalls
    /\ \A task \in sends["offline"] :
          task.msg.type = "tx_response" => task.msg.id \in approveCalls

\* C1 witness: a foreign tx_request is pending and was never approved,
\* the session's request was approved and its tx_response sent.
C1_Witness ==
    /\ ForeignId \in DOMAIN pendingTransactions
    /\ ForeignId \notin approveCalls
    /\ \E m \in handed["offline"] : m.type = "tx_response" /\ m.id = session.tx.id

\* C2: no envelope is emitted as 'eip-message' while the receiving peer's
\* isTransmitting is true.
C2_NoDeliveryWhileTransmitting ==
    \A p \in Peers : \A e \in DOMAIN emitted[p] : ~e.transmitting

\* C2: the state its failure shows: the online client, listening, has
\* received its own connect while it was transmitting it.
C2_SelfReceptionDelivered ==
    \E e \in DOMAIN emitted["online"] : e.transmitting /\ e.m.type = "connect"

\* C7 witness: an expectation was resolved by its timeout after the page
\* had stopped listening.
C7_Witness ==
    /\ Len(expectations) >= 1
    /\ expectations[1].outcome = "timeout"
    /\ ~isListening["online"]
    /\ used.disturbances = 1

\* C8: an expectation is resolved at most once; once resolved, by a
\* matching envelope or by the timeout, its timer is cancelled and its
\* listener removed; a resolving envelope has the expected type.
C8_ExactlyOneOutcome ==
    \A e \in 1..Len(expectations) :
        /\ expectations[e].resolutions <= 1
        /\ expectations[e].resolutions = 1 =>
              ~expectations[e].timer /\ ~expectations[e].listener
        /\ expectations[e].resolutions = 0 => expectations[e].outcome = "pending"
        /\ expectations[e].outcome = "message" =>
              expectations[e].message.type = expectations[e].type

\* C8 witness: the connect_response expectation timed out and a
\* connect_response was emitted afterwards; the outcome stays the timeout.
C8_Witness ==
    /\ Len(expectations) >= 1
    /\ expectations[1].outcome = "timeout"
    /\ expectations[1].resolutions = 1
    /\ \E e \in DOMAIN emitted["online"] : e.m.type = "connect_response"

UnsupportedErrors(f) ==
    { m \in handed[f.rx] :
        /\ m.type = "error"
        /\ m.version = "1.0"
        /\ m.payload.message = "Unsupported protocol version: " \o f.m.version
        /\ m.payload.received_id = f.m.id }

SessionOrder == << "connect", "connect_response", "tx_request", "tx_response", "broadcast" >>

ResolvedWith(type) ==
    \E e \in 1..Len(expectations) :
        expectations[e].type = type /\ expectations[e].outcome = "message"

\* C10: the steps of a session are a prefix of connect, connect_response,
\* tx_request, tx_response, broadcast; a tx_request was sent only after a
\* connect_response resolved the wait for it, and the session is done only
\* after a tx_response resolved the wait for it.
C10_SessionStepsOrdered ==
    /\ Len(session.steps) <= Len(SessionOrder)
    /\ session.steps = SubSeq(SessionOrder, 1, Len(session.steps))
    /\ (\E m \in handed["online"] : m.type = "tx_request") =>
          /\ \E m \in handed["online"] : m.type = "connect"
          /\ ResolvedWith("connect_response")
    /\ session.pc \in {"broadcasting", "done"} => ResolvedWith("tx_response")
    /\ session.pc = "done" => session.steps = SessionOrder

\* C10 witness: a session is done.
C10_Witness ==
    /\ session.pc = "done"
    /\ session.raw = SignedRaw

(***************************************************************************)
(* The handshake of a session.                                             *)
(***************************************************************************)
\* The expectation the running session created for connect_response (0: it
\* has not come to waiting yet).
ConnectWait ==
    IF session.pc \in {"idle", "sendingConnect"} THEN 0
    ELSE CHOOSE e \in 1..Len(expectations) :
            /\ expectations[e].type = "connect_response"
            /\ \A l \in (e + 1)..Len(expectations) : expectations[l].type # "connect_response"

ConnectTimeoutReason == "No connect response received from offline wallet"

\* C11: when the wait for connect_response of a session ended by its
\* timeout, the session has failed with the timeout as its reason, it has
\* not sent and is not sending a tx_request, and the online transport is not
\* left transmitting: with no send in progress isTransmitting is false.
C11_ConnectTimeoutFails ==
    (ConnectWait # 0 /\ expectations[ConnectWait].outcome = "timeout") =>
        /\ session.pc = "failed"
        /\ session.error = ConnectTimeoutReason
        /\ \A k \in 1..Len(session.steps) : session.steps[k] # "tx_request"
        /\ \A task \in sends["online"] : task.owner # "session"
        /\ sends["online"] = {} => ~isTransmitting["online"]

\* C11 witness: the connect was played and heard by nobody; the wait timed
\* out, the session failed and the transport is listening, not transmitting.
C11_Witness ==
    /\ ConnectWait # 0
    /\ expectations[ConnectWait].outcome = "timeout"
    /\ session.error = ConnectTimeoutReason
    /\ isListening["online"]
    /\ ~isTransmitting["online"]
    /\ sends["online"] = {}
    /\ handed["offline"] = {}

\* The error envelopes emitted as 'eip-message' at the online client in
\* this step.
ErrorsEmittedNow ==
    { e \in DOMAIN emitted'["online"] :
        /\ e.m.type = "error"
        /\ \/ e \notin DOMAIN emitted["online"]
           \/ emitted'["online"][e] > emitted["online"][e] }

\* The session is suspended in waitForEIPMessage.
Awaiting ==
    /\ session.pc \in {"awaitConnectResponse", "awaitTxResponse"}
    /\ expectations[session.exp].resolutions = 0

\* C12: an error envelope delivered to the online client while its session
\* awaits connect_response or tx_response ends the wait in that step: the
\* session is failed with the message the envelope carries.
C12_ErrorEndsWait ==
    [][ \A e \in ErrorsEmittedNow :
            Awaiting => /\ session'.pc = "failed"
                        /\ session'.error = e.m.payload.message ]_vars

\* C12: the state its failure shows: the user rejected the session's
\* request, the error envelope that names it was delivered to the online
\* client, and the session failed only by the timeout of its wait.
C12_RejectionReportedAsTimeout ==
    /\ session.pc = "failed"
    /\ session.error = "No transaction response received"
    /\ \E e \in DOMAIN emitted["online"] :
          /\ e.m.type = "error"
          /\ e.m.payload.message = "Transaction rejected: User rejected"
          /\ e.m.payload.received_id = session.tx.id

\* How many times the envelope m was emitted as 'eip-message' at p.
EmittedCount(p, m) ==
    LET n(t) == IF [m |-> m, transmitting |-> t] \in DOMAIN emitted[p]
                THEN emitted[p][[m |-> m, transmitting |-> t]] ELSE 0
    IN  n(TRUE) + n(FALSE)

\* The connect responses the offline wallet passed to sendEIPMessage.
ConnectResponses == { r \in handed["offline"] : r.type = "connect_response" }

\* The activations of handleConnectRequest for connect that are in their
\* 200 ms delay.
ConnectsInDelay(connect) ==
    { h \in 1..Len(handlers) : handlers[h].kind = "connect" /\ handlers[h].msg = connect }

C14_RawIffWithinThreshold ==
    \A p \in Peers : \A task \in sends[p] :
        LET len == TextLen(JSONstringify(task.msg))
        IN  /\ task.msg.type # "chunk"
            /\ (task.i = 0) <=> (len <= ChunkThreshold)
            /\ task.i = 0 => task.cur = task.msg /\ task.texts = <<>>
            /\ task.i # 0 =>
                  /\ task.cur.type = "chunk"
                  /\ task.cur.payload.originalMessageId = task.msg.id
                  /\ task.cur.payload.originalType = task.msg.type
                  /\ task.cur.payload.totalChunks = Len(task.texts)
                  /\ Len(task.texts) >= 2

\* C14 witness: an envelope of exactly ChunkThreshold characters is being
\* played as it is while a longer one is being sent in chunks.
C14_Witness ==
    /\ \E task \in sends["offline"] :
          /\ TextLen(JSONstringify(task.msg)) = ChunkThreshold
          /\ task.i = 0
          /\ task.pc = "playing"
    /\ \E task \in sends["online"] :
          /\ TextLen(JSONstringify(task.msg)) > ChunkThreshold
          /\ task.i # 0

(***************************************************************************)
(* A transaction under the best conditions: both pages have started        *)
(* listening before the session starts and leave it on, no third device is *)
(* heard, whatever is played while the other peer listens is decoded by    *)
(* it, the user approves, and a wait reaches its deadline only when        *)
(* nothing is in progress any more on either device.                       *)
(***************************************************************************)
NothingInProgress ==
    /\ \A p \in Peers : sends[p] = {}
    /\ handlers = <<>>
    /\ DOMAIN pendingTransactions = {}

NextClean ==
    \/ \E p \in Peers : session.pc = "idle" /\ StartListening(p)
    \/ (\A p \in Peers : isListening[p]) /\ StartSession
    \/ \E q \in Peers, p \in Peers, task \in Tasks : Decode(q, p, task)
    \/ \E p \in Peers, task \in Tasks : OnEnded(p, task) /\ UNCHANGED used
    \/ \E p \in Peers, task \in Tasks : GapDone(p, task)
    \/ \E p \in Peers, task \in Tasks : GuardDone(p, task)
    \/ \E h \in 1..Len(handlers) : ConnectDelayDone(h)
    \/ \E id \in DOMAIN pendingTransactions : ApproveCall(id)
    \/ \E h \in 1..Len(handlers) : SignDone(h)
    \/ \E e \in 1..Len(expectations) : NothingInProgress /\ Timeout(e)
    \/ BroadcastDone

SpecClean == Init /\ [][NextClean]_vars

\* C15: under the best conditions a session reaches done.  Once nothing is
\* in progress on either device only a timeout can still happen, so the
\* session reaches done only if in every such state it already has its
\* signed transaction: it is broadcasting or done, not waiting or failed.
C15_SessionCompletes ==
    (session.pc # "idle" /\ NothingInProgress) => session.pc \in {"broadcasting", "done"}

\* C15: the state its failure shows: the session waits for tx_response and
\* nothing is in progress; the offline wallet holds three of the four chunks
\* of the tx_request, whose first chunk was played before the wallet had
\* resumed listening after its connect_response.
C15_RequestChunkMissed ==
    /\ session.pc = "awaitTxResponse"
    /\ NothingInProgress
    /\ expectations[1].outcome = "message"
    /\ session.tx.id \in DOMAIN chunkStorage["offline"]
    /\ Len(chunkStorage["offline"][session.tx.id]) = 3
    /\ \A k \in 1..3 : chunkStorage["offline"][session.tx.id][k].payload.chunkIndex = k
    /\ \A p \in Peers : isListening[p]

(***************************************************************************)
(* JSON, member by member.  A JSON text is here a sequence of tokens: the  *)
(* braces, the member names and the values (a string token stands for the  *)
(* quoted, escaped string).  An object read back is a function from the    *)
(* names that occur in the text to their values.                           *)
(***************************************************************************)
KeyTok(k) == [t |-> "key", v |-> k]
StrTok(s) == [t |-> "string", v |-> s]
NumTok(n) == [t |-> "number", v |-> n]
Open      == [t |-> "{", v |-> ""]
Close     == [t |-> "}", v |-> ""]

\* The members whose values are objects, and those whose values are numbers.
ObjectKeys == {"payload", "transaction", "signedTransaction"}
NumberKeys == {"chainId", "chunkIndex", "totalChunks"}

\* The member names, in the order the program writes them into its objects.
MemberOrder ==
    << "version", "type", "payload", "id",
       "address", "message", "received_id",
       "transaction", "chainId", "nonce", "gasPrice", "gasLimit", "to", "value", "data",
       "signedTransaction", "raw", "hash",
       "originalMessageId", "originalType", "chunkIndex", "totalChunks", "chunkData" >>

MemberNames == { MemberOrder[k] : k \in 1..Len(MemberOrder) }

\* obj has a member k that JSON.stringify writes: a member whose value is
\* undefined is left out.
Written(obj, k) ==
    /\ k \in DOMAIN obj
    /\ k \in ObjectKeys \cup NumberKeys \cup {"chunkData"} \/ obj[k] # Undefined

\* The members of obj, in order, as JSON.stringify writes them.
RECURSIVE stringifyMembers(_, _)
stringifyMembers(obj, keys) ==
    IF keys = <<>> THEN <<>>
    ELSE LET k == keys[1]
         IN  (IF ~Written(obj, k) THEN <<>>
              ELSE IF k \in ObjectKeys
                   THEN << KeyTok(k), Open >> \o stringifyMembers(obj[k], MemberOrder)
                                             \o << Close >>
              ELSE IF k \in NumberKeys THEN << KeyTok(k), NumTok(obj[k]) >>
              ELSE << KeyTok(k), StrTok(obj[k]) >>)
             \o stringifyMembers(obj, Tail(keys))

\* JSON.stringify(value) of an object.
JSONstringifyTokens(value) == << Open >> \o stringifyMembers(value, MemberOrder) \o << Close >>

NoMembers == [k \in {} |-> Undefined]

ParseFailed == [ok |-> FALSE, value |-> NoMembers, next |-> 0]

\* The members from token i up to the closing brace of their object: the
\* object and the place after the brace.  A later member of the same name
\* replaces an earlier one.
RECURSIVE parseMembersAt(_, _)
parseMembersAt(t, i) ==
    IF i > Len(t) THEN ParseFailed
    ELSE IF t[i].t = "}" THEN [ok |-> TRUE, value |-> NoMembers, next |-> i + 1]
    ELSE IF t[i].t # "key" \/ i + 1 > Len(t) THEN ParseFailed
    ELSE IF t[i + 1].t = "{"
         THEN LET inner == parseMembersAt(t, i + 2)
              IN  IF ~inner.ok THEN ParseFailed
                  ELSE LET rest == parseMembersAt(t, inner.next)
                       IN  IF ~rest.ok THEN ParseFailed
                           ELSE [rest EXCEPT !.value = @ @@ (t[i].v :> inner.value)]
    ELSE IF t[i + 1].t \in {"string", "number"}
         THEN LET rest == parseMembersAt(t, i + 2)
              IN  IF ~rest.ok THEN ParseFailed
                  ELSE [rest EXCEPT !.value = @ @@ (t[i].v :> t[i + 1].v)]
    ELSE ParseFailed

\* JSON.parse(text) of the text of an object: ok is false where it throws.
JSONparseTokens(text) ==
    IF text = <<>> \/ text[1].t # "{" THEN ParseFailed
    ELSE LET r == parseMembersAt(text, 2)
         IN  IF r.ok /\ r.next = Len(text) + 1 THEN r ELSE ParseFailed

\* obj.k as JavaScript reads it: undefined for a member that is not there.
Get(obj, k) == IF k \in DOMAIN obj THEN obj[k] ELSE Undefined

\* validateEIPMessage on what JSON.parse returned: version and type are
\* there, type is one of the known ones, payload is there.
validateEIPMessageData(message) ==
    /\ "version" \in DOMAIN message
    /\ "type" \in DOMAIN message
    /\ message.type \in SupportedTypes
    /\ "payload" \in DOMAIN message

\* A variant of the Message constructor that always draws a new id.
MessageWithNewId(version, type, payload, id, fresh) ==
    [version |-> version, type |-> type, payload |-> payload, id |-> fresh]

\* new Message(version, type, payload, id): fresh is what uuidv4() gives.
Message(version, type, payload, id, fresh) ==
    [version |-> version, type |-> type, payload |-> payload,
     id |-> IF id = Undefined \/ id = "" THEN fresh ELSE id]

\* Message.toJSON()
toJSON(m) == JSONstringifyTokens(m)

\* Message.fromJSON(jsonStr)
fromJSON(jsonStr, fresh) ==
    LET data == JSONparseTokens(jsonStr).value
    IN  Message(Get(data, "version"), Get(data, "type"), Get(data, "payload"),
                Get(data, "id"), fresh)

(***************************************************************************)
(* The envelopes the two codecs are tried on: every type with the payloads *)
(* the program builds for it, with and without id, in both versions.       *)
(***************************************************************************)
CodecPayloads ==
    { [type |-> "connect", payload |-> EmptyPayload],
      [type |-> "connect_response",
       payload |-> [address |-> WalletAddress, received_id |-> Undefined]],
      [type |-> "connect_response",
       payload |-> [address |-> WalletAddress, received_id |-> ForeignId]],
      [type |-> "tx_request", payload |-> [transaction |-> TxData]],
      [type |-> "tx_response",
       payload |-> [signedTransaction |-> [raw |-> SignedRaw, hash |-> SignedHash]]],
      [type |-> "ack", payload |-> [received_id |-> ForeignId]],
      [type |-> "error",
       payload |-> [message |-> "Invalid transaction request", received_id |-> Undefined]],
      [type |-> "error",
       payload |-> [message |-> "Invalid transaction request", received_id |-> ForeignId]],
      [type |-> "chunk", payload |-> ChunksOf("online", TxRequest, ChunkSize)[1].payload],
      [type |-> "chunk", payload |-> ChunksOf("online", TxRequest, ChunkSize)[4].payload] }

CodecEnvelopes ==
    { [version |-> v, type |-> c.type, payload |-> c.payload, id |-> id] :
        v \in {"1.0", "2.0"}, c \in CodecPayloads, id \in {Undefined, NewId("online", "main", 1)} }

InitCodec ==
    /\ InitPeers
    /\ wire = NoWire
    /\ \E E \in CodecEnvelopes :
          codec = [stage |-> "drawn", via |-> "none", E |-> E, text |-> <<>>, out |-> NoMsg]

codecRest ==
    << isListening, isTransmitting, chunkStorage, sends, expectations, session, walletAddress,
       pendingTransactions, handlers, nextId, emitted, handed, reassemblyLog, approveCalls,
       wire, arrivals, lost, elapsed, used, legacy, eipSend, waits, responder, networks >>

\* sendEIPMessage: JSON.stringify(message).
StringifyEnvelope ==
    /\ codec.stage = "drawn"
    /\ codec' = [codec EXCEPT !.stage = "text", !.via = "eip",
                              !.text = JSONstringifyTokens(codec.E)]
    /\ UNCHANGED codecRest

\* onaudioprocess: JSON.parse(text), then validateEIPMessage.
ParseEnvelope ==
    /\ codec.stage = "text"
    /\ codec.via = "eip"
    /\ LET messageData == JSONparseTokens(codec.text)
       IN  codec' = [codec EXCEPT
                        !.stage = IF messageData.ok /\ validateEIPMessageData(messageData.value)
                                  THEN "done" ELSE "dropped",
                        !.out = messageData.value]
    /\ UNCHANGED codecRest

\* new Message(...).toJSON()
MessageToJSON ==
    /\ codec.stage = "drawn"
    /\ LET m == Message(codec.E.version, codec.E.type, codec.E.payload, codec.E.id, "uuid-1")
       IN  codec' = [codec EXCEPT !.stage = "text", !.via = "legacy", !.E = m,
                                  !.text = toJSON(m)]
    /\ UNCHANGED codecRest

\* Message.fromJSON(text)
MessageFromJSON ==
    /\ codec.stage = "text"
    /\ codec.via = "legacy"
    /\ codec' = [codec EXCEPT !.stage = "done", !.out = fromJSON(codec.text, "uuid-2")]
    /\ UNCHANGED codecRest

NextCodec ==
    \/ StringifyEnvelope
    \/ ParseEnvelope
    \/ MessageToJSON
    \/ MessageFromJSON

SpecCodec == InitCodec /\ [][NextCodec]_vars

\* a and b have the same members with the same values, member by member as
\* a program reads them (a member that is not there reads as undefined).
RECURSIVE SameObject(_, _)
SameObject(a, b) ==
    \A k \in MemberNames :
        /\ Written(a, k) <=> Written(b, k)
        /\ Written(a, k) =>
              IF k \in ObjectKeys THEN SameObject(a[k], b[k]) ELSE a[k] = b[k]

\* C16: what is read back from the text of an envelope is the envelope:
\* the text is accepted, version, type, payload and id are the same member
\* by member, and an envelope without id is read back without an id member.
C16_RoundTrip ==
    codec.stage \in {"done", "dropped"} =>
        /\ codec.stage = "done"
        /\ SameObject(codec.out, codec.E)
        /\ codec.E.id = Undefined => "id" \notin DOMAIN codec.out

\* C16 witness: a connect_response without id, whose received_id is
\* undefined, went through JSON.stringify and JSON.parse: neither member is
\* in the text or in what was read back.
C16_Witness ==
    /\ codec.stage = "done"
    /\ codec.via = "eip"
    /\ codec.E.type = "connect_response"
    /\ codec.E.id = Undefined
    /\ codec.E.payload.received_id = Undefined
    /\ Len(codec.text) = 11
    /\ DOMAIN codec.out = {"version", "type", "payload"}
    /\ DOMAIN codec.out.payload = {"address"}

(***************************************************************************)
(* Properties of the transmissions of one peer.                            *)
(***************************************************************************)
\* C17: a peer has at most one sendEIPMessage in progress (playing, between
\* two chunks or in the delay before listening is resumed): no send starts
\* to play before the one before it has completed.
C17_OneTransmissionAtATime ==
    \A p \in Peers : Cardinality(sends[p]) <= 1

\* C17: the state its failure shows: the offline wallet plays a chunk of its
\* connect_response and a chunk of a tx_response at the same time.
C17_TwoPlaybacksAtOnce ==
    \E a \in sends["offline"], b \in sends["offline"] :
        /\ a.msg.type = "connect_response"
        /\ b.msg.type = "tx_response"
        /\ a.pc = "playing"
        /\ b.pc = "playing"

\* The chunked sends of p in progress.
ChunkedSends(p) == { task \in sends[p] : task.i # 0 }

\* The send of task is still in progress after this step.
StillInProgress(p, task) == \E next \in sends'[p] : next.msg = task.msg

\* C18: a chunked send begins with listening off and remembers whether it
\* was on; while the send is in progress the transport does not turn
\* listening on (only a startListening call of the page does); when the
\* send returns, listening is on if it was on when the send began and, when
\* it was off, is not turned on by the send.
C18_ListeningSuspendedOnce ==
    [][ \A p \in Peers :
          /\ \A task \in ChunkedSends(p)' :
                (\A before \in sends[p] : before.msg # task.msg) =>
                    /\ ~isListening'[p]
                    /\ task.wasListening = isListening[p]
          /\ used'.starts[p] = used.starts[p] =>
                \A task \in ChunkedSends(p) :
                    IF StillInProgress(p, task)
                    THEN isListening'[p] => isListening[p]
                    ELSE /\ task.wasListening => isListening'[p]
                         /\ isListening'[p] => task.wasListening \/ isListening[p] ]_vars

\* C18: the state its failure shows: the offline wallet is listening while
\* it plays a chunk of a send that began with listening off; an earlier
\* chunked send, still in progress when this one began, has resumed it.
C18_ResumedDuringAnotherSend ==
    \E task \in ChunkedSends("offline") :
        /\ ~task.wasListening
        /\ task.pc = "playing"
        /\ isListening["offline"]
        /\ used.starts["offline"] = 1
        /\ used.disturbances = 1
        /\ DOMAIN used.foreign # {}

\* The activation of the send of task.msg at p before this step, if any.
Before(p, task) == { before \in sends[p] : before.msg = task.msg }

\* C19, for the EIP transport: the chunks of a chunked send are played in
\* increasing index order: the send begins with chunk 0, a chunk other than
\* the first begins only from the pause that follows the end of the playback
\* of the chunk just before it, that pause begins only when a playback has
\* ended, the envelope played is the chunk of the current index, and the
\* send returns only after its last chunk.
C19_EIPChunksInOrder ==
    [][ \A p \in Peers :
          /\ \A task \in ChunkedSends(p)' :
                /\ task.cur.type = "chunk"
                /\ task.cur.payload.chunkIndex = task.i - 1
                /\ task.cur.payload.totalChunks = Len(task.texts)
                /\ task.cur.payload.chunkData = task.texts[task.i]
                /\ IF Before(p, task) = {}
                   THEN task.i = 1 /\ task.pc = "playing"
                   ELSE \A before \in Before(p, task) :
                           \/ before.pc = task.pc /\ before.i = task.i
                           \/ CASE task.pc = "playing" ->
                                      before.pc = "gap" /\ task.i = before.i + 1
                                [] task.pc = "gap" ->
                                      /\ before.pc = "playing"
                                      /\ task.i = before.i
                                      /\ task.i < Len(task.texts)
                                [] OTHER ->
                                      /\ before.pc = "playing"
                                      /\ task.i = before.i
                                      /\ task.i = Len(task.texts)
          /\ \A task \in ChunkedSends(p) :
                ~StillInProgress(p, task) =>
                    task.i = Len(task.texts) /\ task.pc \in {"playing", "guard"} ]_vars

\* C19, for the EIP transport: the online client plays the last of at least
\* three chunks.
C19_EIPWitness ==
    \E task \in ChunkedSends("online") :
        /\ Len(task.texts) >= 3
        /\ task.i = Len(task.texts)
        /\ task.pc = "playing"
        /\ task.cur.payload.chunkIndex = Len(task.texts) - 1

(***************************************************************************)
(* The legacy AudioProtocol: sendMessage, sendSingleMessage and            *)
(* sendChunkedMessage.  sendSingleMessage starts the playback and returns  *)
(* true at once; onended runs when the playback is over, which the send    *)
(* does not wait for.  A send is described by the length of the JSON text  *)
(* of its message; chunks are numbered from 0 as in the code.              *)
(***************************************************************************)
LegacyMaxMessageSize == 8192
LegacyChunkSize == 2048

\* The lengths of the messages sent: the longest that is sent whole, and
\* two that are cut into five and six chunks.
LegacyLengths == {LegacyMaxMessageSize, LegacyMaxMessageSize + 1, 5 * LegacyChunkSize + 1}

LegacyChunkingEnabled == TRUE

shouldChunkMessage(messageLength) ==
    LegacyChunkingEnabled /\ messageLength > LegacyMaxMessageSize

\* MessageProtocol.chunkMessage: the number of chunks pushed by
\* for (let i = 0; i < messageJson.length; i += chunkSize).
LegacyChunkCount(messageLength, chunkSize) == (messageLength + chunkSize - 1) \div chunkSize

legacyRest ==
    << isListening, isTransmitting, chunkStorage, sends, expectations, session, walletAddress,
       pendingTransactions, handlers, nextId, emitted, handed, reassemblyLog, approveCalls,
       wire, arrivals, lost, elapsed, used, codec, eipSend, waits, responder, networks >>

\* sendMessage(message) up to its first await that takes time: a short
\* message is started and the send returns; of a long one chunk 0 is
\* started and the 1000 ms wait that follows every chunk begins.
LegacySendMessage(messageLength) ==
    /\ legacy.pc = "idle"
    /\ legacy' =
          IF shouldChunkMessage(messageLength)
          THEN [legacy EXCEPT !.pc = "delay",
                              !.total = LegacyChunkCount(messageLength, LegacyChunkSize),
                              !.i = 0, !.playing = {0}, !.started = <<0>>, !.delays = <<0>>,
                              !.isTransmitting = TRUE]
          ELSE [legacy EXCEPT !.pc = "returned", !.playing = {0}, !.started = <<0>>,
                              !.isTransmitting = TRUE]
    /\ UNCHANGED legacyRest

\* source.onended of the playback of chunk k (of the message, if sent whole).
LegacyOnEnded(k) ==
    /\ k \in legacy.playing
    /\ legacy' = [legacy EXCEPT !.playing = @ \ {k}, !.isTransmitting = FALSE]
    /\ UNCHANGED legacyRest

\* The 1000 ms after chunk i are over: the loop goes on with the next chunk
\* and the wait after it, or ends and the send returns true.
LegacyDelayDone ==
    /\ legacy.pc = "delay"
    /\ LET next == legacy.i + 1
       IN  legacy' =
              IF next < legacy.total
              THEN [legacy EXCEPT !.i = next, !.playing = @ \cup {next},
                                  !.started = Append(@, next), !.delays = Append(@, next),
                                  !.isTransmitting = TRUE]
              ELSE [legacy EXCEPT !.pc = "returned"]
    /\ UNCHANGED legacyRest

NextLegacy ==
    \/ \E messageLength \in LegacyLengths : LegacySendMessage(messageLength)
    \/ \E k \in legacy.playing : LegacyOnEnded(k)
    \/ LegacyDelayDone

SpecLegacy == Init /\ [][NextLegacy]_vars

\* C19: the chunks of a chunked send are started in increasing index order,
\* none skipped or repeated, and a chunk is started only when the playback
\* of every chunk started before it has ended.
C19_ChunksInOrder ==
    [][ /\ \A j \in 1..Len(legacy'.started) : legacy'.started[j] = j - 1
        /\ Len(legacy'.started) > Len(legacy.started) => legacy.playing = {} ]_vars

\* C19: the state its failure shows: the legacy transport plays two chunks
\* of one send at the same time.
C19_ChunksPlayedTogether ==
    /\ legacy.total > 0
    /\ legacy.pc = "delay"
    /\ {legacy.i - 1, legacy.i} \subseteq legacy.playing

\* C20: in a chunked send a pause follows the playback of every chunk but
\* the last one, and none follows the last.
C20_PauseBetweenChunksOnly ==
    legacy.total > 0 =>
        /\ \A j \in 1..Len(legacy.delays) : legacy.delays[j] < legacy.total - 1
        /\ \A j \in 1..Len(legacy.started) :
              j < Len(legacy.started) => j <= Len(legacy.delays) /\ legacy.delays[j] = j - 1

\* C20: the state its failure shows: a chunked send of the legacy transport
\* has returned after the 1000 ms pause that follows its last chunk.
C20_PauseAfterLastChunk ==
    /\ legacy.total > 0
    /\ legacy.pc = "returned"
    /\ Len(legacy.started) = legacy.total
    /\ legacy.delays[Len(legacy.delays)] = legacy.total - 1

(***************************************************************************)
(* One EIPAudioProtocol and one send of it, with the ways a playback can   *)
(* fail: initialize, sendEIPMessage, sendSingleEIPMessage with its         *)
(* fallback timer, sendChunkedEIPMessage with its finally and catch        *)
(* blocks.  Playbacks are numbered as the chunks are in the code, from 0;  *)
(* a message sent whole is playback 0 of a send with total = 0.            *)
(***************************************************************************)
MaxTotal == 3

\* What a playback attempt meets: ggwave.encode or createBuffer throws,
\* source.start throws, or the playback starts.
Outcomes == {"ok", "encodeThrows", "startThrows"}

Event(name, arg, n) == [name |-> name, arg |-> arg, n |-> n]

\* initialize(): true when the codec is there or can be made now; otherwise
\* it emits 'error' and returns false.
initialize(t, available) ==
    IF t.ggwave \/ available
    THEN [ok |-> TRUE, t |-> [t EXCEPT !.ggwave = TRUE]]
    ELSE [ok |-> FALSE,
          t  |-> [t EXCEPT !.events = Append(@, Event("error", "ggwave_factory not available", 0))]]

\* startListening(): false when already listening or not initialized; the
\* microphone may be refused (getUserMedia rejects), caught and reported.
startListening(t, available, micOk) ==
    IF t.isListening
    THEN t
    ELSE LET init == initialize(t, available)
         IN  IF ~init.ok
             THEN init.t
             ELSE IF micOk
             THEN [init.t EXCEPT !.isListening = TRUE,
                                 !.events = Append(@, Event("listening", "true", 0))]
             ELSE [init.t EXCEPT !.events = Append(@, Event("error", "getUserMedia", 0))]

stopListening(t) ==
    IF ~t.isListening
    THEN t
    ELSE [t EXCEPT !.isListening = FALSE,
                   !.events = Append(@, Event("listening", "false", 0))]

\* sendSingleEIPMessage up to the point where it returns a value or a
\* promise: playback k starts (timer armed, onended set), or the outer
\* catch runs (returns false), or the inner catch runs (the promise is
\* rejected).
sendSingleEIPMessage(t, k, outcome) ==
    CASE outcome = "ok" ->
           [t EXCEPT !.isTransmitting = TRUE,
                     !.events = Append(@, Event("transmitting", "true", 0)),
                     !.started = Append(@, k),
                     !.playing = @ \cup {k},
                     !.timers = @ \cup {k},
                     !.calls = Append(@, 0)]
      [] outcome = "encodeThrows" ->
           [t EXCEPT !.isTransmitting = FALSE,
                     !.events = @ \o << Event("transmitting", "true", 0),
                                        Event("transmitting", "false", 0),
                                        Event("error", "encode", 0) >>]
      [] OTHER ->
           [t EXCEPT !.isTransmitting = FALSE,
                     !.events = @ \o << Event("transmitting", "true", 0),
                                        Event("transmitting", "false", 0) >>]

\* The error sendChunkedEIPMessage has in hand when its try block is left
\* by a throw: its own 'Failed to send EIP chunk i+1' when
\* sendSingleEIPMessage returned false, the error of source.start when the
\* awaited promise was rejected.
ThrownError(t) ==
    IF t.thrown = "chunk"
    THEN Event("error", "Failed to send EIP chunk", t.i + 1)
    ELSE Event("error", "start", 0)

\* The catch block of sendChunkedEIPMessage.
Catch(t) ==
    [t EXCEPT !.events = Append(@, ThrownError(t)), !.result = "false", !.pc = "returned"]

\* The try block of sendChunkedEIPMessage is left: the finally block waits
\* and restarts listening only if the controller was listening.
Finally(t) ==
    IF t.wasListening
    THEN [t EXCEPT !.pc = "guard"]
    ELSE IF t.thrown = "none"
    THEN [t EXCEPT !.result = "true", !.pc = "returned"]
    ELSE Catch(t)

\* Chunk k of a chunked send is attempted.
SendChunk(t, k, outcome) ==
    LET after == [sendSingleEIPMessage(t, k, outcome) EXCEPT !.i = k]
    IN  CASE outcome = "ok" -> [after EXCEPT !.pc = "playing"]
          [] outcome = "encodeThrows" -> Finally([after EXCEPT !.thrown = "chunk"])
          [] OTHER -> Finally([after EXCEPT !.thrown = "start"])

\* A variant of sendEIPMessage that does not test initialize().
sendEIPMessageUnchecked(t, total, available, outcome) ==
    LET whole == sendSingleEIPMessage(t, 0, outcome)
    IN  CASE outcome = "ok" -> [whole EXCEPT !.pc = "playing"]
          [] outcome = "encodeThrows" -> [whole EXCEPT !.result = "false", !.pc = "returned"]
          [] OTHER -> [whole EXCEPT !.result = "rejected", !.pc = "returned"]

\* sendEIPMessage(message), where total is the number of chunks of the
\* message (0: it is sent whole).
sendEIPMessage(t, total, available, outcome) ==
    LET init == initialize(t, available)
    IN  IF ~init.ok
        THEN [init.t EXCEPT !.result = "false", !.pc = "returned"]
        ELSE IF total = 0
        THEN LET whole == sendSingleEIPMessage(init.t, 0, outcome)
             IN  CASE outcome = "ok" -> [whole EXCEPT !.pc = "playing"]
                   [] outcome = "encodeThrows" ->
                        [whole EXCEPT !.result = "false", !.pc = "returned"]
                   [] OTHER -> [whole EXCEPT !.result = "rejected", !.pc = "returned"]
        ELSE SendChunk([stopListening(init.t) EXCEPT !.total = total,
                                                     !.wasListening = init.t.isListening],
                       0, outcome)

\* The completion both source.onended and the fallback timer run for
\* playback k: isTransmitting = false, emit, resolve(true).  The first
\* resolve of the playback the send is waiting for lets the send go on.
Complete(t, k) ==
    LET done == [t EXCEPT !.isTransmitting = FALSE,
                          !.events = Append(@, Event("transmitting", "false", 0)),
                          !.calls[k + 1] = @ + 1]
    IN  IF ~(t.pc = "playing" /\ t.i = k /\ t.calls[k + 1] = 0)
        THEN done
        ELSE IF t.total = 0
        THEN [done EXCEPT !.result = "true", !.pc = "returned"]
        ELSE IF k < t.total - 1
        THEN [done EXCEPT !.pc = "gap"]
        ELSE Finally(done)

sendRest ==
    << isListening, isTransmitting, chunkStorage, sends, expectations, session, walletAddress,
       pendingTransactions, handlers, nextId, emitted, handed, reassemblyLog, approveCalls,
       wire, arrivals, lost, elapsed, used, codec, legacy, waits, responder, networks >>

\* The page calls startListening() while no send is in progress.
PageStartListening(available, micOk) ==
    /\ eipSend.pc = "idle"
    /\ ~eipSend.isListening
    /\ Len(eipSend.events) < MaxStarts
    /\ eipSend' = startListening(eipSend, available, micOk)
    /\ UNCHANGED sendRest

\* A caller calls sendEIPMessage(message).
CallSendEIPMessage(total, available, outcome) ==
    /\ eipSend.pc = "idle"
    /\ eipSend' = sendEIPMessage([eipSend EXCEPT !.before =
                                     [isListening    |-> eipSend.isListening,
                                      isTransmitting |-> eipSend.isTransmitting,
                                      events         |-> Len(eipSend.events)]],
                                 total, available, outcome)
    /\ UNCHANGED sendRest

\* source.onended of playback k: clearTimeout(timeoutId) and the completion.
SourceEnded(k) ==
    /\ k \in eipSend.playing
    /\ eipSend' = Complete([eipSend EXCEPT !.playing = @ \ {k}, !.timers = @ \ {k}], k)
    /\ UNCHANGED sendRest

\* The 10 s fallback timer of playback k fires.
FallbackFires(k) ==
    /\ k \in eipSend.timers
    /\ eipSend' = Complete([eipSend EXCEPT !.timers = @ \ {k}], k)
    /\ UNCHANGED sendRest

\* The 1000 ms after a chunk that is not the last are over.
NextChunkDue(outcome) ==
    /\ eipSend.pc = "gap"
    /\ eipSend' = SendChunk(eipSend, NextChunkIndex(eipSend.i), outcome)
    /\ UNCHANGED sendRest

\* The 2000 ms of the finally block are over: startListening(), then the
\* send returns true or goes through its catch block.
ResumeDue(micOk) ==
    /\ eipSend.pc = "guard"
    /\ LET resumed == startListening(eipSend, TRUE, micOk)
       IN  eipSend' = IF eipSend.thrown = "none"
                      THEN [resumed EXCEPT !.result = "true", !.pc = "returned"]
                      ELSE Catch(resumed)
    /\ UNCHANGED sendRest

NextSend ==
    \/ \E available \in BOOLEAN, micOk \in BOOLEAN : PageStartListening(available, micOk)
    \/ \E total \in {0} \cup 2..MaxTotal, available \in BOOLEAN, outcome \in Outcomes :
          CallSendEIPMessage(total, available, outcome)
    \/ \E k \in eipSend.playing : SourceEnded(k)
    \/ \E k \in eipSend.timers : FallbackFires(k)
    \/ \E outcome \in Outcomes : NextChunkDue(outcome)
    \/ \E micOk \in BOOLEAN : ResumeDue(micOk)

SpecSend == Init /\ [][NextSend]_vars

\* The timers of the code fire: the fallback of a playback, the pause
\* between chunks, the wait of the finally block.
FairSpecSend ==
    /\ SpecSend
    /\ WF_vars(\E k \in eipSend.timers : FallbackFires(k))
    /\ WF_vars(\E outcome \in Outcomes : NextChunkDue(outcome))
    /\ WF_vars(\E micOk \in BOOLEAN : ResumeDue(micOk))

\* The events emitted since sendEIPMessage was called.
EventsOfSend == SubSeq(eipSend.events, eipSend.before.events + 1, Len(eipSend.events))

Emitted(event) == \E j \in 1..Len(EventsOfSend) : EventsOfSend[j] = event

\* C21: when chunk k of a chunked send fails, exactly the chunks before k
\* were played and none is played afterwards, isTransmitting is false, the
\* send returns false, the error it reports tells how many chunks were sent
\* (it names chunk k, counted from 1), and a controller that was not
\* listening when the send began is not listening afterwards.
C21_AbortReported ==
    eipSend.thrown # "none" =>
        /\ eipSend.started = [j \in 1..eipSend.i |-> j - 1]
        /\ ~eipSend.isTransmitting
        /\ eipSend.isListening => eipSend.wasListening
        /\ eipSend.pc = "returned" =>
              /\ eipSend.result = "false"
              /\ Emitted(Event("error", "Failed to send EIP chunk", Len(eipSend.started) + 1))

\* C21: the state its failure shows: source.start threw for the last of
\* three chunks; the send has returned false and the only error reported
\* is that of source.start, which names no chunk.
C21_StartErrorReported ==
    /\ eipSend.pc = "returned"
    /\ eipSend.thrown = "start"
    /\ eipSend.total = 3
    /\ eipSend.started = << 0, 1 >>
    /\ eipSend.result = "false"
    /\ Emitted(Event("error", "start", 0))
    /\ \A n \in 1..eipSend.total : ~Emitted(Event("error", "Failed to send EIP chunk", n))

\* C22: a send for which the codec cannot be acquired returns false, plays
\* nothing, leaves isListening and isTransmitting as they were and emits no
\* 'transmitting' event.
C22_UnavailableLeavesStateAlone ==
    (eipSend.pc = "returned" /\ ~eipSend.ggwave) =>
        /\ eipSend.result = "false"
        /\ eipSend.started = <<>>
        /\ eipSend.isListening = eipSend.before.isListening
        /\ eipSend.isTransmitting = eipSend.before.isTransmitting
        /\ \A j \in 1..Len(EventsOfSend) : EventsOfSend[j].name # "transmitting"

\* C22: a send has returned false because ggwave_factory was not there; it
\* emitted that error and nothing else.
C22_Witness ==
    /\ eipSend.pc = "returned"
    /\ ~eipSend.ggwave
    /\ eipSend.result = "false"
    /\ EventsOfSend = << Event("error", "ggwave_factory not available", 0) >>

\* C23: the completion of a playback (isTransmitting = false, resolve) runs
\* once: from the playback-ended confirmation or from the fallback timer,
\* never from both.
C23_CompletedOnce ==
    \A j \in 1..Len(eipSend.calls) : eipSend.calls[j] <= 1

\* C23: the state its failure shows: the fallback of chunk 0 fired, chunk 1
\* was started, then the confirmation of chunk 0 arrived and ran the
\* completion again: chunk 1 is playing and awaited with isTransmitting
\* false.
C23_CompletedTwice ==
    /\ eipSend.pc = "playing"
    /\ eipSend.i = 1
    /\ 1 \in eipSend.playing
    /\ eipSend.calls = << 2, 0 >>
    /\ ~eipSend.isTransmitting

\* C23, the part that holds: with the timers firing, every send returns
\* and the controller is then not transmitting.
C23_SendTerminates ==
    (eipSend.pc # "idle") ~> (eipSend.pc = "returned" /\ ~eipSend.isTransmitting)

\* The envelopes emitted as 'eip-message' at the online client in this step.
EmittedNow ==
    { e.m : e \in { e \in DOMAIN emitted'["online"] :
                      \/ e \notin DOMAIN emitted["online"]
                      \/ emitted'["online"][e] > emitted["online"][e] } }

\* C24: an expectation is pending when it is registered, whatever was
\* delivered before; it is resolved with a message only in the step that
\* delivers that message, and the message has the expected type; the
\* delivery of an envelope of another type leaves it as it was.
C24_NoBuffering ==
    [][ \A k \in 1..Len(expectations') :
          IF k > Len(expectations)
          THEN expectations'[k] = waitForEIPMessage(expectations'[k].type)
          ELSE /\ (expectations[k].outcome # "message" /\ expectations'[k].outcome = "message") =>
                     /\ expectations[k].outcome = "pending"
                     /\ expectations'[k].message.type = expectations[k].type
                     /\ expectations'[k].message \in EmittedNow
               /\ (\E m \in EmittedNow : m.type # expectations[k].type) =>
                     expectations'[k] = expectations[k] ]_vars

\* C24: a connect_response of the supported version was delivered to the
\* online client, and the session's wait for a connect_response, which was
\* not pending at that moment, timed out.
C24_Witness ==
    /\ Len(expectations) = 1
    /\ expectations[1].type = "connect_response"
    /\ expectations[1].outcome = "timeout"
    /\ expectations[1].message = NoMsg
    /\ \E e \in DOMAIN emitted["online"] : e.m.type = "connect_response" /\ e.m.version = "1.0"

(***************************************************************************)
(* The calls of the online WalletClient that wait for an envelope:         *)
(* connectToOfflineWallet (started by the page's handleConnect) and        *)
(* sendTransactionRequest (started by the transaction form, which is       *)
(* enabled as soon as WalletClient.initialize succeeded).  Their sends are *)
(* steps of their own; what is delivered is any envelope the offline       *)
(* wallet can send.                                                        *)
(***************************************************************************)
MaxDeliveries == 2

Calls == {"connectToOfflineWallet", "sendTransactionRequest"}

\* The envelopes handleEIPMessage may emit at the online client.
Inbound == { c.E : c \in { c \in LongEnvelopes : c.tx = "offline" } }

waitsRest ==
    << isListening, isTransmitting, chunkStorage, sends, session, walletAddress,
       pendingTransactions, handlers, nextId, emitted, handed, reassemblyLog, approveCalls,
       wire, arrivals, lost, elapsed, used, codec, legacy, eipSend, responder,
       networks >>

\* The page calls c: the call sends its connect.
Call(c) ==
    /\ waits.calls[c].pc = "idle"
    /\ waits' = [waits EXCEPT !.calls[c].pc = "sendingConnect"]
    /\ UNCHANGED expectations
    /\ UNCHANGED waitsRest

\* sendEIPMessage returned true to c: c calls waitForEIPMessage for the
\* response to what it sent.
SendReturned(c) ==
    /\ waits.calls[c].pc \in {"sendingConnect", "sendingTxRequest"}
    /\ expectations' = Append(expectations,
                              waitForEIPMessage(IF waits.calls[c].pc = "sendingConnect"
                                                THEN "connect_response" ELSE "tx_response"))
    /\ waits' = [waits EXCEPT !.calls[c] =
                    [pc  |-> IF @.pc = "sendingConnect"
                             THEN "awaitConnectResponse" ELSE "awaitTxResponse",
                     exp |-> Len(expectations) + 1]]
    /\ UNCHANGED waitsRest

\* The call c after its wait was resolved with a message.
Resumed(c, call) ==
    IF call.pc = "awaitConnectResponse" /\ c = "sendTransactionRequest"
    THEN [pc |-> "sendingTxRequest", exp |-> 0]
    ELSE [pc |-> "done", exp |-> 0]

\* handleEIPMessage emits message: every registered listener is called,
\* then the calls whose wait was resolved go on.
Deliver(message) ==
    /\ waits.delivered < MaxDeliveries
    /\ expectations' = AfterEmit(message)
    /\ waits' = [calls |-> [c \in Calls |->
                    LET call == waits.calls[c]
                    IN  IF /\ call.exp # 0
                           /\ expectations[call.exp].resolutions = 0
                           /\ AfterEmit(message)[call.exp].resolutions = 1
                        THEN Resumed(c, call)
                        ELSE call],
                 delivered |-> waits.delivered + 1]
    /\ UNCHANGED waitsRest

\* The setTimeout of expectation e fires: the call that waits throws.
WaitTimeout(e) ==
    /\ expectations[e].timer
    /\ expectations' = [expectations EXCEPT ![e] = timeoutCallback(@)]
    /\ waits' = [waits EXCEPT !.calls =
                    [c \in Calls |-> IF waits.calls[c].exp = e
                                     THEN [pc |-> "failed", exp |-> 0]
                                     ELSE waits.calls[c]]]
    /\ UNCHANGED waitsRest

NextWaits ==
    \/ \E c \in Calls : Call(c)
    \/ \E c \in Calls : SendReturned(c)
    \/ \E message \in Inbound : Deliver(message)
    \/ \E e \in 1..Len(expectations) : WaitTimeout(e)

SpecWaits == Init /\ [][NextWaits]_vars

\* The expectations of type whose listener is registered.
Outstanding(type) ==
    { k \in 1..Len(expectations) : expectations[k].listener /\ expectations[k].type = type }

\* C25: at no time are two expectations of the same type outstanding, and
\* one delivered envelope resolves at most one expectation.
C25_OneExpectationPerType ==
    [][ /\ \A type \in SupportedTypes : Cardinality(Outstanding(type)') <= 1
        /\ Cardinality({ k \in 1..Len(expectations) :
                            /\ expectations[k].outcome = "pending"
                            /\ expectations'[k].outcome = "message" }) <= 1 ]_vars

\* C25: the state its failure shows: connectToOfflineWallet and
\* sendTransactionRequest both waited for connect_response, and the one
\* connect_response that was delivered resolved both waits.
C25_OneEnvelopeResolvedTwoWaits ==
    /\ waits.delivered = 1
    /\ Len(expectations) = 2
    /\ \A k \in 1..2 : /\ expectations[k].type = "connect_response"
                       /\ expectations[k].outcome = "message"
    /\ expectations[1].message = expectations[2].message
    /\ waits.calls["connectToOfflineWallet"].pc = "done"
    /\ waits.calls["sendTransactionRequest"].pc = "sendingTxRequest"

(***************************************************************************)
(* A third device.  Its chunk envelopes carry the supported version, as    *)
(* handleEIPMessage requires of a chunk, around a text of its own choice;  *)
(* its other texts are not envelopes at all.  They reach the microphone of *)
(* a peer in any order, some twice, some never.                            *)
(***************************************************************************)
\* A tx_request of a version the receiver does not support.
TxRequestV2 == [TxRequest EXCEPT !.version = "2.0", !.id = ForeignId]

\* A tx_request of the supported version, sent twice by the third device
\* with two chunk sizes.
TxRequestV1 == [TxRequest EXCEPT !.id = ForeignId]

\* The chunk envelopes around the slices of E cut with chunk size S, the
\* envelope of slice k drawing the id numbered from + k.
ThirdDeviceChunks(E, S, from) ==
    LET texts == ChunkTexts(JSONstringify(E), S)
    IN  [k \in 1..Len(texts) |->
            [chunkMessage(E, texts, k, ChunkId(E, from + k))
                EXCEPT !.version = EIP_PROTOCOL_VERSION]]

\* Decoded texts validateEIPMessage or JSON.parse refuses: a truncated
\* serialisation, a type outside the enum, no version, no payload.
InvalidTexts ==
    { substring(JSONstringify(TxRequestV1), 0, ChunkThreshold),
      JSONstringify([version |-> "1.0", type |-> "hello", payload |-> EmptyPayload,
                     id |-> ForeignId]),
      JSONstringify([version |-> Undefined, type |-> "connect", payload |-> EmptyPayload,
                     id |-> Undefined]),
      JSONstringify([version |-> "1.0", type |-> "ack", payload |-> [absent |-> TRUE],
                     id |-> ForeignId]) }

\* The third device sends at most this many chunk envelopes.
MaxThirdDeviceChunks == 3

\* The chunk sizes of the third device.
ThirdDeviceSizes == { S \in ChunkSizes : S % 100 = 0 }

InitThirdDevice ==
    /\ InitPeers
    /\ codec = NoCodec
    /\ \/ \E S \in ThirdDeviceSizes :
             /\ CeilDiv(JsonLen(TxRequestV2), S) <= MaxThirdDeviceChunks
             /\ wire = [tx |-> ForeignId, rx |-> "offline", E |-> TxRequestV2, size |-> S,
                        chunks |-> ThirdDeviceChunks(TxRequestV2, S, 0)]
       \/ \E S \in ThirdDeviceSizes, T \in ThirdDeviceSizes :
             LET n == CeilDiv(JsonLen(TxRequestV1), S)
                 m == CeilDiv(JsonLen(TxRequestV1), T)
             IN  /\ n < m
                 /\ n + m <= MaxThirdDeviceChunks
                 /\ wire = [tx |-> ForeignId, rx |-> "offline", E |-> TxRequestV1, size |-> S,
                            chunks |-> ThirdDeviceChunks(TxRequestV1, S, 0)
                                          \o ThirdDeviceChunks(TxRequestV1, T, n)]

\* The microphone of q decodes a text that is no envelope.
TextArrives(q, text) ==
    /\ used.disturbances < MaxDisturbances
    /\ Receive(q, text, sends)
    /\ used' = [used EXCEPT !.disturbances = @ + 1]
    /\ UNCHANGED << approveCalls, wire, arrivals, lost, elapsed, codec, legacy, eipSend,
                    waits, responder, networks >>

\* The online client starts to wait for a connect_response.
WaitStarts ==
    /\ Len(expectations) < MaxSessions
    /\ expectations' = Append(expectations, waitForEIPMessage("connect_response"))
    /\ UNCHANGED << isListening, isTransmitting, chunkStorage, sends, session, walletAddress,
                    pendingTransactions, handlers, nextId, emitted, handed, reassemblyLog,
                    approveCalls, used >>
    /\ UNCHANGED chunkVars

NextThirdDevice ==
    \/ \E k \in 1..MaxThirdDeviceChunks : ChunkArrives(k)
    \/ \E k \in 1..MaxThirdDeviceChunks : Lose(k)
    \/ Elapse
    \/ \E q \in Peers, text \in InvalidTexts : TextArrives(q, text)
    \/ WaitStarts

SpecThirdDevice == InitThirdDevice /\ [][NextThirdDevice]_vars

\* C26: a reassembled envelope is processed like a directly received one:
\* none of an unsupported version or of a type outside the enum is delivered
\* as 'eip-message', and one of an unsupported version is answered with an
\* error envelope.
C26_ReassembledChecked ==
    \A p \in Peers :
       /\ \A e \in DOMAIN emitted[p] :
             isVersionSupported(e.m.version) /\ validateEIPMessage(e.m)
       /\ \A a \in reassemblyLog[p] :
             (a.ok /\ ~isVersionSupported(wire.E.version))
                => \E h \in handed[p] : h.type = "error"

\* The offline wallet holds, for the user to approve, a tx_request of
\* version 2.0 that was reassembled from chunks, and has sent no error.
C26_UnsupportedVersionDelivered ==
    /\ wire.E = TxRequestV2
    /\ \E a \in reassemblyLog["offline"] : a.ok
    /\ ForeignId \in DOMAIN pendingTransactions
    /\ pendingTransactions[ForeignId].version = "2.0"
    /\ handed["offline"] = {}
    /\ sends["offline"] = {}

\* The totals the chunks of a buffer declare.
TotalsOf(chunks) == { chunks[k].payload.totalChunks : k \in 1..Len(chunks) }

\* C27: a chunk arriving for an id whose buffer declares another totalChunks
\* makes the receiver discard that buffer: no buffer holds chunks declaring
\* different totals, and no reassembly is attempted on a buffer whose chunks
\* declare another total than the chunk that completes it.
C27_TotalsNeverCombined ==
    [][\A p \in Peers :
          /\ \A id \in DOMAIN chunkStorage'[p] :
                Cardinality(TotalsOf(chunkStorage'[p][id])) <= 1
          /\ \A id \in DOMAIN chunkStorage[p] \ DOMAIN chunkStorage'[p] :
                reassemblyLog'[p] # reassemblyLog[p]
                   => TotalsOf(chunkStorage[p][id]) = {Len(chunkStorage[p][id]) + 1}]_vars

\* The buffer of the offline wallet for the id of the third device's request
\* holds chunks declaring two different totals.
C27_MixedBuffer ==
    /\ ForeignId \in DOMAIN chunkStorage["offline"]
    /\ Cardinality(TotalsOf(chunkStorage["offline"][ForeignId])) = 2

\* The reassemblies attempted in a step.
NewAttempts(p) == reassemblyLog'[p] \ reassemblyLog[p]

\* C28: a reassembly buffer exists for an id only between its first chunk and
\* its resolution.  In every step: a reassembly attempted in the step, parsed
\* or not, leaves no buffer for its id; no buffer that stays is complete by
\* the count of its latest chunk; a buffer that appears holds one chunk, the
\* one that arrived.
C28_BufferEndsWithResolution ==
    [][\A p \in Peers :
          /\ \A a \in NewAttempts(p) : a.id \notin DOMAIN chunkStorage'[p]
          /\ \A id \in DOMAIN chunkStorage'[p] :
                LET chunks == chunkStorage'[p][id]
                IN  /\ Len(chunks) # chunks[Len(chunks)].payload.totalChunks
                    /\ id \notin DOMAIN chunkStorage[p] => Len(chunks) = 1]_vars

\* A reassembly of E failed to parse, its buffer was dropped, and a chunk of
\* E that arrived afterwards is alone in a new buffer.
C28_Witness ==
    LET p == wire.rx
    IN  /\ \E a \in reassemblyLog[p] : a.id = wire.E.id /\ ~a.ok
        /\ wire.E.id \in DOMAIN chunkStorage[p]
        /\ Len(chunkStorage[p][wire.E.id]) = 1
        /\ Len(arrivals) >= 3

\* What the receive path of p can change.
ReceiveState(p) ==
    << isListening[p], isTransmitting[p], chunkStorage[p], sends[p], emitted[p], handed[p],
       reassemblyLog[p], nextId[p], expectations, session, walletAddress,
       pendingTransactions, handlers >>

\* C29: a decoded text that is malformed, has no version, a type outside the
\* enum or no payload is dropped: in the step in which it is decoded no
\* envelope is delivered, no reply is handed to sendEIPMessage, and the
\* channel, the reassembly buffers and the expectations stay as they were.
C29_InvalidTextDropped ==
    [][used'.disturbances # used.disturbances
          => \A p \in Peers : ReceiveState(p)' = ReceiveState(p)]_vars

\* An invalid text was decoded while a wait for connect_response was
\* outstanding and a reassembly buffer held a chunk; both are still there.
C29_Witness ==
    /\ used.disturbances = 1
    /\ Len(expectations) = 1
    /\ expectations[1].outcome = "pending"
    /\ chunkStorage["offline"] # EmptyMap
    /\ \A p \in Peers : DOMAIN emitted[p] = {} /\ handed[p] = {}

\* C30: chunk(E, S) returns ceil(len / S) chunk envelopes, len the length of
\* serialize(E); chunk i has chunkIndex i, totalChunks the number of chunks,
\* the id and the type of E as originalMessageId and originalType, and the
\* slice [i * S, min((i + 1) * S, len)) of serialize(E) as chunkData; no
\* chunkData is longer than S and only the last may be shorter.
C30_ChunkShape ==
    LET text == JSONstringify(wire.E)
        len  == TextLen(text)
        S    == wire.size
        n    == Len(wire.chunks)
    IN  wire.tx \in Peers =>
          /\ n * S >= len
          /\ (n - 1) * S < len
          /\ \A k \in 1..n :
                LET c == wire.chunks[k]
                    i == k - 1
                IN  /\ c.type = "chunk"
                    /\ c.payload.chunkIndex = i
                    /\ c.payload.totalChunks = n
                    /\ c.payload.originalMessageId = wire.E.id
                    /\ c.payload.originalType = wire.E.type
                    /\ c.payload.chunkData = substring(text, i * S, Min((i + 1) * S, len))
                    /\ TextLen(c.payload.chunkData) <= S
                    /\ k < n => TextLen(c.payload.chunkData) = S

\* An envelope was cut into three chunks or more, the last shorter than the
\* chunk size, and the receiver has heard every one of them.
C30_Witness ==
    /\ wire.tx \in Peers
    /\ Len(wire.chunks) >= 3
    /\ TextLen(wire.chunks[Len(wire.chunks)].payload.chunkData) < wire.size
    /\ AllArrived

(***************************************************************************)
(* The per-transmission ceiling of the audio codec.                        *)
(***************************************************************************)
CodecCeiling == 140

\* The length of the text sendSingleEIPMessage hands to ggwave.encode for the
\* envelope task plays.
EncodedLength(task) == JsonLen(task.cur)

\* C31: every text handed to the audio codec for one transmission, a raw
\* envelope or a chunk envelope with its framing around at most 80 characters
\* of chunkData, is at most 140 bytes long.
C31_WithinCeiling ==
    \A task \in Tasks : task.pc = "playing" => EncodedLength(task) <= CodecCeiling

\* A chunk envelope is being played whose chunkData has at most 80 characters
\* and whose serialisation, even without the backslashes JSON adds inside
\* chunkData, is longer than 140 bytes.
C31_ChunkEnvelopeTooLong ==
    \E task \in Tasks :
       /\ task.pc = "playing"
       /\ task.cur.type = "chunk"
       /\ TextLen(task.cur.payload.chunkData) <= ChunkSize
       /\ EncodedLength(task) > CodecCeiling

(***************************************************************************)
(* The responder alone.  The offline wallet hears one tx_request of        *)
(* another device, valid or not, and approveTransaction and                *)
(* rejectTransaction are called for its id, before it arrived, while it is *)
(* pending, while an earlier call is still signing or transmitting, and    *)
(* after it was processed.                                                 *)
(***************************************************************************)
MaxCalls == 2   \* approveTransaction and rejectTransaction calls

\* A chain id outside TestWallet.getSupportedChainIds().
UnsupportedChainId == 999

\* The tx_request of the other device: valid, without transaction object,
\* without a required field, with an unsupported chain id.
TxRequests ==
    { [version |-> "1.0", type |-> "tx_request", payload |-> p, id |-> ForeignId] :
        p \in { [transaction |-> TxData],
                EmptyPayload,
                [transaction |-> [TxData EXCEPT !.to = Undefined]],
                [transaction |-> [TxData EXCEPT !.chainId = UnsupportedChainId]] } }

responderRest ==
    << expectations, session, walletAddress, chunkStorage, emitted, reassemblyLog, used,
       wire, arrivals, lost, elapsed, codec, legacy, eipSend, waits, networks >>

\* approveTransaction(messageId) up to its first suspension: it throws when
\* the id is not pending, else it starts to sign.
approveTransaction(messageId) ==
    /\ Len(responder.calls) < MaxCalls
    /\ IF messageId \in DOMAIN pendingTransactions
       THEN /\ approveCalls' = approveCalls \cup {messageId}
            /\ handlers' = Append(handlers,
                                  [kind |-> "sign", msg |-> pendingTransactions[messageId]])
            /\ responder' = [responder EXCEPT !.calls =
                                Append(@, [op |-> "approve", id |-> messageId,
                                           began |-> "signing"])]
       ELSE /\ responder' = [responder EXCEPT !.calls =
                                Append(@, [op |-> "approve", id |-> messageId,
                                           began |-> "thrown"])]
            /\ UNCHANGED << approveCalls, handlers >>
    /\ NoSend(sends)
    /\ UNCHANGED pendingTransactions
    /\ UNCHANGED responderRest

\* rejectTransaction(messageId) up to its first suspension: it throws when
\* the id is not pending, else it sends the error response.
rejectTransaction(messageId) ==
    /\ Len(responder.calls) < MaxCalls
    /\ IF messageId \in DOMAIN pendingTransactions
       THEN /\ sendErrorResponse(pendingTransactions[messageId].id,
                                 "Transaction rejected: User rejected", "reject", sends)
            /\ responder' = [responder EXCEPT !.calls =
                                Append(@, [op |-> "reject", id |-> messageId,
                                           began |-> "sending"])]
       ELSE /\ NoSend(sends)
            /\ responder' = [responder EXCEPT !.calls =
                                Append(@, [op |-> "reject", id |-> messageId,
                                           began |-> "thrown"])]
    /\ UNCHANGED << pendingTransactions, approveCalls, handlers >>
    /\ UNCHANGED responderRest

NextResponder ==
    \/ StartListening("offline")
    \/ \E m \in TxRequests : Inject("offline", m)
    \/ approveTransaction(ForeignId)
    \/ rejectTransaction(ForeignId)
    \/ \E h \in 1..Len(handlers) : SignDone(h)
    \/ \E task \in Tasks : OnEnded("offline", task)
    \/ \E task \in Tasks : GapDone("offline", task)
    \/ \E task \in Tasks : GuardDone("offline", task)

SpecResponder == Init /\ [][NextResponder]_vars

\* The replies to the request id handed to sendEIPMessage.
RepliesTo(id, envelopes) ==
    { m \in envelopes : \/ m.type = "tx_response" /\ m.id = id
                        \/ m.type = "error" /\ m.payload.received_id = id }

\* The call that began in this step, if one did.
CallBegun ==
    IF Len(responder'.calls) > Len(responder.calls)
    THEN << responder'.calls[Len(responder'.calls)] >> ELSE <<>>

HandedNow == handed'["offline"] \ handed["offline"]

RejectBegan(id) ==
    \E j \in 1..Len(responder.calls) :
       /\ responder.calls[j].op = "reject"
       /\ responder.calls[j].id = id
       /\ responder.calls[j].began = "sending"

\* C32: rejectTransaction for a pending id sends one error envelope whose
\* received_id is the id, and no tx_response is sent for that request
\* afterwards; approve or reject of an id that is not pending fails and
\* sends nothing.
C32_RejectIsFinal ==
    [][/\ \A m \in HandedNow : m.type = "tx_response" => ~RejectBegan(m.id)
       /\ CallBegun # <<>> =>
             LET c == CallBegun[1]
             IN  /\ c.began = "thrown" <=> c.id \notin DOMAIN pendingTransactions
                 /\ c.began = "thrown" =>
                       HandedNow = {} /\ sends' = sends /\ handlers' = handlers
                 /\ c.began = "sending" =>
                       /\ Cardinality(HandedNow) = 1
                       /\ \A m \in HandedNow :
                             m.type = "error" /\ m.payload.received_id = c.id]_vars

\* rejectTransaction sent its error for the request, approveTransaction was
\* called while that error was being transmitted, and the tx_response of the
\* rejected request was handed to sendEIPMessage.
C32_SignedAfterRejection ==
    /\ Len(responder.calls) = 2
    /\ responder.calls[1].op = "reject" /\ responder.calls[1].began = "sending"
    /\ responder.calls[2].op = "approve" /\ responder.calls[2].began = "signing"
    /\ \E m \in handed["offline"] : m.type = "tx_response" /\ m.id = ForeignId

\* C33: for a received tx_request the responder transmits at most one reply,
\* a tx_response or an error, whatever the interleaving of the
\* approveTransaction and rejectTransaction calls on its id.
C33_AtMostOneReply ==
    Cardinality(RepliesTo(ForeignId, handed["offline"])) <= 1

\* approveTransaction was signing when rejectTransaction was called: the
\* error of the rejection and the tx_response were both handed to
\* sendEIPMessage for the one request.
C33_RejectedAndSigned ==
    /\ Len(responder.calls) = 2
    /\ responder.calls[1].op = "approve" /\ responder.calls[1].began = "signing"
    /\ responder.calls[2].op = "reject" /\ responder.calls[2].began = "sending"
    /\ \E m \in handed["offline"] : m.type = "tx_response" /\ m.id = ForeignId
    /\ \E m \in handed["offline"] : m.type = "error" /\ m.payload.received_id = ForeignId

\* C34: the tx_response that completes a session of the online client
\* carries the id of the tx_request sent in that session.
C34_ResponseOfThisRequest ==
    \A k \in 1..Len(expectations) :
       (expectations[k].type = "tx_response" /\ expectations[k].outcome = "message")
          => expectations[k].message.id = session.tx.id

\* The session goes on to broadcast the signed transaction of a tx_response
\* whose id is that of another device's request.
C34_ForeignResponseBroadcast ==
    /\ session.pc \in {"broadcasting", "done"}
    /\ \E k \in 1..Len(expectations) :
          /\ expectations[k].type = "tx_response"
          /\ expectations[k].outcome = "message"
          /\ expectations[k].message.id = ForeignId
    /\ session.tx.id # ForeignId

\* The sends p began in this step.
BegunNow(p) == sends'[p] \ { [task EXCEPT !.heard = h] : task \in sends[p], h \in SUBSET Peers }

\* The chunked sends of p that stopped its listening and have not resumed it.
Suspending(p) == { task \in sends[p] : task.wasListening }

\* C35: when a peer starts to transmit in reaction to an envelope it has just
\* reassembled from chunks, the peer that sent the chunks has resumed
\* listening: its chunked send, with the wait before listening is resumed,
\* is over.
C35_ReplyAfterGuard ==
    [][\A p \in Peers :
          (reassemblyLog'[p] # reassemblyLog[p] /\ BegunNow(p) # {})
             => (Suspending(Other(p))' = {} /\ isListening'[Other(p)])]_vars

\* The online client plays the first chunk of its tx_request while the
\* offline wallet, whose chunked connect_response it has just reassembled,
\* has not resumed listening.
C35_RequestDuringGuard ==
    /\ session.pc = "sendingTx"
    /\ \E task \in sends["online"] :
          task.msg.type = "tx_request" /\ task.pc = "playing" /\ task.i = 1
    /\ \E task \in sends["offline"] :
          task.msg.type = "connect_response" /\ task.wasListening /\ task.pc = "guard"
    /\ ~isListening["offline"]

(***************************************************************************)
(* connectToOfflineWallet of the online WalletClient on the controller of  *)
(* the sends above: audio.initialize(), startListening(), then the send of *)
(* the connect envelope, which is short and sent whole.                    *)
(***************************************************************************)

\* A variant of startListening that returns true when the controller is
\* listening already.
startListeningReturnsIdempotent(t, available, micOk) ==
    t.isListening \/ (initialize(t, available).ok /\ micOk)

\* The value startListening() returns: false when the controller is
\* listening already, when initialize() fails and when the microphone is
\* refused; true after it has set isListening.
startListeningReturns(t, available, micOk) ==
    ~t.isListening /\ initialize(t, available).ok /\ micOk

\* The catch block of connectToOfflineWallet: the error is emitted and null
\* is returned.
ConnectFailed(error) ==
    [waits EXCEPT !.calls["connectToOfflineWallet"] =
                     [pc |-> "failed", exp |-> 0, error |-> error]]

connectRest ==
    << isListening, isTransmitting, chunkStorage, sends, expectations, session, walletAddress,
       pendingTransactions, handlers, nextId, emitted, handed, reassemblyLog, approveCalls,
       wire, arrivals, lost, elapsed, used, codec, legacy, responder, networks >>

\* The page calls connectToOfflineWallet() while no send is in progress.
connectToOfflineWallet(available, micOk, outcome) ==
    /\ waits.calls["connectToOfflineWallet"].pc = "idle"
    /\ eipSend.pc = "idle"
    /\ LET init      == initialize(eipSend, available)
           listening == startListening(init.t, available, micOk)
           sent      == sendEIPMessage([listening EXCEPT !.before =
                                           [isListening    |-> listening.isListening,
                                            isTransmitting |-> listening.isTransmitting,
                                            events         |-> Len(listening.events)]],
                                       0, available, outcome)
       IN  IF ~init.ok
           THEN /\ eipSend' = init.t
                /\ waits' = ConnectFailed("Failed to initialize audio")
           ELSE IF ~startListeningReturns(init.t, available, micOk)
           THEN /\ eipSend' = listening
                /\ waits' = ConnectFailed("Failed to start listening")
           ELSE /\ eipSend' = sent
                /\ waits' = CASE sent.result = "false" ->
                                   ConnectFailed("Failed to send connect message")
                              [] sent.result = "rejected" -> ConnectFailed("start")
                              [] OTHER ->
                                   [waits EXCEPT !.calls["connectToOfflineWallet"].pc =
                                                    "sendingConnect"]
    /\ UNCHANGED connectRest

NextConnect ==
    \/ \E available \in BOOLEAN, micOk \in BOOLEAN : PageStartListening(available, micOk)
    \/ \E available \in BOOLEAN, micOk \in BOOLEAN, outcome \in Outcomes :
          connectToOfflineWallet(available, micOk, outcome)
    \/ \E total \in {0} \cup 2..MaxTotal, available \in BOOLEAN, outcome \in Outcomes :
          CallSendEIPMessage(total, available, outcome)
    \/ \E k \in eipSend.playing : SourceEnded(k)
    \/ \E k \in eipSend.timers : FallbackFires(k)
    \/ \E outcome \in Outcomes : NextChunkDue(outcome)
    \/ \E micOk \in BOOLEAN : ResumeDue(micOk)

SpecConnect == Init /\ [][NextConnect]_vars

\* C36: startListening() on a controller that is listening returns false
\* and changes nothing; connectToOfflineWallet() called while the controller
\* is listening fails with 'Failed to start listening', returns null and
\* transmits nothing: the controller is left as it was.
C36_ListeningBlocksConnect ==
    [][ ( /\ eipSend.isListening
          /\ waits.calls["connectToOfflineWallet"].pc = "idle"
          /\ waits'.calls["connectToOfflineWallet"].pc # "idle" )
        => /\ \A available \in BOOLEAN, micOk \in BOOLEAN :
                 /\ ~startListeningReturns(eipSend, available, micOk)
                 /\ startListening(eipSend, available, micOk) = eipSend
           /\ waits'.calls["connectToOfflineWallet"] =
                 [pc |-> "failed", exp |-> 0, error |-> "Failed to start listening"]
           /\ eipSend' = eipSend ]_vars

\* C36: connectToOfflineWallet() was called on a controller that was
\* listening and has failed with 'Failed to start listening'; no playback
\* was started.
C36_Witness ==
    /\ waits.calls["connectToOfflineWallet"].pc = "failed"
    /\ waits.calls["connectToOfflineWallet"].error = "Failed to start listening"
    /\ eipSend.isListening
    /\ eipSend.started = <<>>
    /\ eipSend.pc = "idle"

\* The envelopes of a third device the microphones decoded in this step.
InjectedNow ==
    { f \in DOMAIN used'.foreign :
        f \notin DOMAIN used.foreign \/ used'.foreign[f] > used.foreign[f] }

\* C37: a tx_request that fails validation at the responder (no transaction
\* object, a required field missing, a chainId that is not supported) does
\* not become a pending transaction, and the responder hands exactly one
\* envelope to sendEIPMessage for it: an error whose received_id is the id
\* of the request.
C37_InvalidRequestAnswered ==
    [][ \A f \in InjectedNow :
          (f.rx = "offline" /\ f.m \in TxRequests /\ f.m.payload # [transaction |-> TxData])
             => /\ pendingTransactions' = pendingTransactions
                /\ \E e \in HandedNow :
                      /\ HandedNow = {e}
                      /\ e.type = "error"
                      /\ e.payload.received_id = f.m.id ]_vars

\* C37: a tx_request for a chain that is not supported was received, an
\* error naming its id was handed to sendEIPMessage, and nothing is pending.
C37_Witness ==
    /\ \E f \in DOMAIN used.foreign :
          /\ f.rx = "offline"
          /\ f.m.type = "tx_request"
          /\ "transaction" \in DOMAIN f.m.payload
          /\ f.m.payload.transaction.chainId = UnsupportedChainId
    /\ \E e \in handed["offline"] : e.type = "error" /\ e.payload.received_id = ForeignId
    /\ DOMAIN pendingTransactions = {}

(***************************************************************************)
(* sendTransactionRequest with the ways it can fail: a send that returns   *)
(* false or is rejected, a wait that times out, a tx_response without a    *)
(* raw signed transaction, a broadcast that throws.  The two devices are   *)
(* otherwise in the conditions of SpecClean.  The legacy WalletClient runs *)
(* the same steps with sendMessage and waitForMessage.                     *)
(***************************************************************************)

\* A tx_response whose signedTransaction has no raw transaction.
UnsignedResponse ==
    [version |-> "1.0", type |-> "tx_response",
     payload |-> [signedTransaction |-> [raw |-> Undefined, hash |-> SignedHash]],
     id |-> ForeignId]

\* sendEIPMessage returns false to the session, or its promise is rejected:
\* the activation throws 'Failed to send ...' into its catch block.  A
\* chunked send has gone through its finally block first, which resumes
\* the listening it had stopped.
SessionSendFails(task) ==
    /\ task \in sends["online"]
    /\ task.owner = "session"
    /\ task.pc = "playing"
    /\ session.pc \in {"sendingConnect", "sendingTx"}
    /\ sends' = [sends EXCEPT !["online"] = @ \ {task}]
    /\ isTransmitting' = [isTransmitting EXCEPT !["online"] = FALSE]
    /\ isListening' = IF task.wasListening
                      THEN [isListening EXCEPT !["online"] = TRUE] ELSE isListening
    /\ session' = [session EXCEPT
                      !.pc = "failed",
                      !.error = IF session.pc = "sendingConnect"
                                THEN "Failed to send connect"
                                ELSE "Failed to send transaction request"]
    /\ UNCHANGED << chunkStorage, expectations, walletAddress, pendingTransactions, handlers,
                    nextId, emitted, handed, reassemblyLog, approveCalls, used >>
    /\ UNCHANGED chunkVars

\* crypto.broadcastTransaction throws: the catch block returns the failure.
BroadcastFails ==
    /\ session.pc = "broadcasting"
    /\ session' = [session EXCEPT !.pc = "failed", !.error = "broadcast failed"]
    /\ UNCHANGED << isListening, isTransmitting, chunkStorage, sends, expectations,
                    walletAddress, pendingTransactions, handlers, nextId, emitted, handed,
                    reassemblyLog, approveCalls, used >>
    /\ UNCHANGED chunkVars

NextSession ==
    \/ \E p \in Peers : session.pc = "idle" /\ StartListening(p)
    \/ (\A p \in Peers : isListening[p]) /\ StartSession
    \/ \E q \in Peers, p \in Peers, task \in Tasks : Decode(q, p, task)
    \/ \E p \in Peers, task \in Tasks : OnEnded(p, task) /\ UNCHANGED used
    \/ \E p \in Peers, task \in Tasks : GapDone(p, task)
    \/ \E p \in Peers, task \in Tasks : GuardDone(p, task)
    \/ \E h \in 1..Len(handlers) : ConnectDelayDone(h)
    \/ \E id \in DOMAIN pendingTransactions : ApproveCall(id)
    \/ \E h \in 1..Len(handlers) : SignDone(h)
    \/ \E e \in 1..Len(expectations) : NothingInProgress /\ Timeout(e)
    \/ Inject("online", UnsignedResponse)
    \/ \E task \in Tasks : SessionSendFails(task)
    \/ BroadcastDone
    \/ BroadcastFails

SpecSession == Init /\ [][NextSession]_vars

\* The activation is between its first send and its return.
SessionRunning ==
    session.pc \in {"sendingConnect", "awaitConnectResponse", "sendingTx", "awaitTxResponse"}

\* The wait of the activation is resolved with null in this step.
SessionTimesOut ==
    /\ session.exp # 0
    /\ expectations[session.exp].outcome = "pending"
    /\ expectations'[session.exp].outcome = "timeout"

\* The wait for tx_response is resolved in this step with a response that
\* has no raw signed transaction.
SessionGetsUnsigned ==
    /\ session.pc = "awaitTxResponse"
    /\ expectations[session.exp].outcome = "pending"
    /\ expectations'[session.exp].outcome = "message"
    /\ expectations'[session.exp].message.payload.signedTransaction.raw = Undefined

\* A send of the activation ends in this step without a wait being
\* registered: it returned false or was rejected.
SessionSendFailed ==
    /\ session.pc \in {"sendingConnect", "sendingTx"}
    /\ \E task \in sends["online"] : task.owner = "session"
    /\ \A task \in sends'["online"] : task.owner # "session"
    /\ Len(expectations') = Len(expectations)

\* C38: the activation calls the broadcast only in the step in which its
\* wait for tx_response is resolved with a response that has a raw signed
\* transaction, and with that transaction; the broadcast returns at most
\* once; when a wait times out, when the tx_response has no raw signed
\* transaction and when a send fails, the activation ends failed with an
\* error text and has taken no signed transaction: nothing is broadcast.
C38_BroadcastOnlySigned ==
    [][ /\ (session'.pc = "broadcasting" /\ session.pc # "broadcasting") =>
              /\ session.pc = "awaitTxResponse"
              /\ session'.raw # Undefined
              /\ \E m \in EmittedNow :
                    /\ m.type = "tx_response"
                    /\ m.payload.signedTransaction.raw = session'.raw
        /\ (session'.steps # session.steps
               /\ session'.steps[Len(session'.steps)] = "broadcast") =>
              /\ session.pc = "broadcasting"
              /\ \A j \in 1..Len(session.steps) : session.steps[j] # "broadcast"
        /\ (SessionRunning /\ (SessionTimesOut \/ SessionGetsUnsigned \/ SessionSendFailed)) =>
              /\ session'.pc = "failed"
              /\ session'.error \notin {Undefined, ""}
              /\ session'.raw = Undefined
              /\ \A j \in 1..Len(session'.steps) : session'.steps[j] # "broadcast" ]_vars

\* C38: the activation has failed on a tx_response without a raw signed
\* transaction and has broadcast nothing.
C38_Witness ==
    /\ session.pc = "failed"
    /\ session.error = "Invalid transaction response"
    /\ session.raw = Undefined
    /\ \E k \in 1..Len(expectations) :
          /\ expectations[k].type = "tx_response"
          /\ expectations[k].outcome = "message"
          /\ expectations[k].message = UnsignedResponse

(***************************************************************************)
(* The network list: the preset networks and the custom networks kept in   *)
(* localStorage, with addCustomNetwork, updateCustomNetwork and            *)
(* deleteCustomNetwork.  A name is the sequence of its characters; an RPC  *)
(* URL is its scheme followed by the rest.  An id is its kind and a number *)
(* (preset_<chainId>, custom_<n>); generateNetworkId is taken to give a    *)
(* new id each time.                                                       *)
(***************************************************************************)
MaxNetworkCalls == 3

Ethereum == << "E", "t", "h", "e", "r", "e", "u", "m" >>

Base == << "B", "a", "s", "e" >>

BinanceSmartChain ==
    << "B", "i", "n", "a", "n", "c", "e", " ", "S", "m", "a", "r", "t", " ", "C", "h", "a",
       "i", "n" >>

Dev == << "D", "e", "v" >>

PRESET_NETWORKS ==
    << [name |-> Ethereum, rpcUrl |-> << "https://", "eth.llamarpc.com" >>, chainId |-> 1,
        isCustom |-> FALSE],
       [name |-> Base, rpcUrl |-> << "https://", "base.llamarpc.com" >>, chainId |-> 8453,
        isCustom |-> FALSE],
       [name |-> BinanceSmartChain, rpcUrl |-> << "https://", "binance.llamarpc.com" >>,
        chainId |-> 56, isCustom |-> FALSE] >>

\* String.prototype.toLowerCase on the letters that occur.
LowerChar(c) ==
    CASE c = "B" -> "b"
      [] c = "C" -> "c"
      [] c = "D" -> "d"
      [] c = "E" -> "e"
      [] c = "S" -> "s"
      [] c = "V" -> "v"
      [] OTHER -> c

toLowerCase(s) == [j \in 1..Len(s) |-> LowerChar(s[j])]

\* String.prototype.trim: white space is removed at both ends.
RECURSIVE trim(_)
trim(s) ==
    IF s = <<>>
    THEN s
    ELSE IF s[1] = " "
    THEN trim(Tail(s))
    ELSE IF s[Len(s)] = " "
    THEN trim(SubSeq(s, 1, Len(s) - 1))
    ELSE s

startsWith(s, prefix) == s # <<>> /\ s[1] = prefix

PresetId(chainId) == [kind |-> "preset", n |-> chainId]

\* generateNetworkId(), the n-th id made.
generateNetworkId(n) == [kind |-> "custom", n |-> n]

\* getAllNetworks(): the presets with their ids, then the custom networks.
getAllNetworks(custom) ==
    [j \in 1..Len(PRESET_NETWORKS) |->
        [id |-> PresetId(PRESET_NETWORKS[j].chainId), name |-> PRESET_NETWORKS[j].name,
         rpcUrl |-> PRESET_NETWORKS[j].rpcUrl, chainId |-> PRESET_NETWORKS[j].chainId,
         isCustom |-> FALSE]] \o custom

\* The checks addCustomNetwork and updateCustomNetwork make on their input
\* and against the networks others: the error thrown, or "ok".
ValidateNetwork(name, rpcUrl, chainId, others) ==
    IF trim(name) = <<>>
    THEN "Network name is required"
    ELSE IF trim(rpcUrl) = <<>>
    THEN "RPC URL is required"
    ELSE IF ~startsWith(rpcUrl, "https://") /\ ~startsWith(rpcUrl, "http://")
    THEN "RPC URL must be a valid HTTP/HTTPS URL"
    ELSE IF chainId <= 0
    THEN "Chain ID must be a positive integer"
    ELSE IF \E j \in 1..Len(others) : others[j].chainId = chainId
    THEN "A network with this Chain ID already exists"
    ELSE IF \E j \in 1..Len(others) : toLowerCase(others[j].name) = toLowerCase(name)
    THEN "A network with this name already exists"
    ELSE "ok"

networksRest ==
    << isListening, isTransmitting, chunkStorage, sends, expectations, session, walletAddress,
       pendingTransactions, handlers, nextId, emitted, handed, reassemblyLog, approveCalls,
       wire, arrivals, lost, elapsed, used, codec, legacy, eipSend, waits, responder >>

\* The outcome of a call: the error it threw, the list it left stored.
Called(result, custom, created) ==
    [custom |-> custom, result |-> result, created |-> created, calls |-> networks.calls + 1]

addCustomNetwork(name, rpcUrl, chainId, stored) ==
    /\ networks.calls < MaxNetworkCalls
    /\ LET checked == ValidateNetwork(name, rpcUrl, chainId, getAllNetworks(networks.custom))
           newNetwork == [id |-> generateNetworkId(networks.created + 1), name |-> trim(name),
                          rpcUrl |-> trim(rpcUrl), chainId |-> chainId, isCustom |-> TRUE]
       IN  networks' =
              IF checked # "ok"
              THEN Called(checked, networks.custom, networks.created)
              ELSE IF ~stored
              THEN Called("Failed to save network configuration", networks.custom,
                          networks.created + 1)
              ELSE Called("ok", Append(networks.custom, newNetwork), networks.created + 1)
    /\ UNCHANGED networksRest

updateCustomNetwork(id, name, rpcUrl, chainId, stored) ==
    /\ networks.calls < MaxNetworkCalls
    /\ LET found   == { j \in 1..Len(networks.custom) : networks.custom[j].id = id }
           others  == SelectSeq(getAllNetworks(networks.custom), LAMBDA n : n.id # id)
           checked == ValidateNetwork(name, rpcUrl, chainId, others)
           updatedNetwork == [id |-> id, name |-> trim(name), rpcUrl |-> trim(rpcUrl),
                              chainId |-> chainId, isCustom |-> TRUE]
       IN  networks' =
              IF found = {}
              THEN Called("Network not found", networks.custom, networks.created)
              ELSE IF checked # "ok"
              THEN Called(checked, networks.custom, networks.created)
              ELSE IF ~stored
              THEN Called("Failed to save network configuration", networks.custom,
                          networks.created)
              ELSE Called("ok",
                          [networks.custom EXCEPT ![CHOOSE j \in found :
                                                       \A k \in found : j <= k] =
                                                     updatedNetwork],
                          networks.created)
    /\ UNCHANGED networksRest

deleteCustomNetwork(id, stored) ==
    /\ networks.calls < MaxNetworkCalls
    /\ LET filteredNetworks == SelectSeq(networks.custom, LAMBDA n : n.id # id)
       IN  networks' =
              IF Len(filteredNetworks) = Len(networks.custom)
              THEN Called("Network not found", networks.custom, networks.created)
              ELSE IF ~stored
              THEN Called("Failed to save network configuration", networks.custom,
                          networks.created)
              ELSE Called("ok", filteredNetworks, networks.created)
    /\ UNCHANGED networksRest

\* What the form and its callers pass.
NameInputs ==
    { Ethereum, toLowerCase(Ethereum), Ethereum \o << " " >>, Dev, << " " >> \o Dev,
      << "D", "E", "V" >>, << " " >>, <<>> }

UrlInputs == { << "https://", "rpc" >>, << "ftp://", "rpc" >>, << " " >> }

ChainIdInputs == { -1, 0, 1, 5, 7 }

NetworkIds ==
    { PresetId(PRESET_NETWORKS[j].chainId) : j \in 1..Len(PRESET_NETWORKS) }
       \cup { generateNetworkId(n) : n \in 1..MaxNetworkCalls }

NextNetworks ==
    \/ \E name \in NameInputs, rpcUrl \in UrlInputs, chainId \in ChainIdInputs,
          stored \in BOOLEAN : addCustomNetwork(name, rpcUrl, chainId, stored)
    \/ \E id \in NetworkIds, name \in NameInputs, rpcUrl \in UrlInputs,
          chainId \in ChainIdInputs, stored \in BOOLEAN :
          updateCustomNetwork(id, name, rpcUrl, chainId, stored)
    \/ \E id \in NetworkIds, stored \in BOOLEAN : deleteCustomNetwork(id, stored)

SpecNetworks == Init /\ [][NextNetworks]_vars

\* C39: no two networks of getAllNetworks() have the same chainId, and no
\* two have the same name when the names are compared without regard to
\* case.
C39_NetworksDistinct ==
    LET all == getAllNetworks(networks.custom)
    IN  \A j \in 1..Len(all), k \in 1..Len(all) :
           j # k => /\ all[j].chainId # all[k].chainId
                    /\ toLowerCase(all[j].name) # toLowerCase(all[k].name)

\* C39: the state its failure shows: a custom network named Ethereum is
\* stored next to the preset of that name.
C39_DuplicateName ==
    \E j \in 1..Len(networks.custom) :
       /\ networks.custom[j].name = Ethereum
       /\ networks.custom[j].chainId # 1

\* C39, the part that holds: no two networks share a chainId or an id, a
\* call that throws leaves the stored custom networks as they were, and a
\* call with the id of a preset network throws 'Network not found'.
C39_RejectedUnchanged ==
    [][ /\ LET all == getAllNetworks(networks'.custom)
           IN  \A j \in 1..Len(all), k \in 1..Len(all) :
                  j # k => all[j].chainId # all[k].chainId /\ all[j].id # all[k].id
        /\ (networks'.calls > networks.calls /\ networks'.result # "ok")
              => networks'.custom = networks.custom
        /\ \A j \in 1..Len(networks'.custom) : networks'.custom[j].id.kind = "custom" ]_vars

====
